---- MODULE Spec2Model ----
(***************************************************************************)
(* dbtool: chunked PostgreSQL dump / restore.                              *)
(*                                                                         *)
(* One table directory, one live source table, one destination table and   *)
(* the single-threaded process that runs flow_dump / flow_restore on it.   *)
(* Files are modelled by what a reader finds in them; the database by the   *)
(* row count of the source table and by how often each chunk's data has     *)
(* been committed to the destination.                                       *)
(***************************************************************************)
EXTENDS Integers, Sequences, FiniteSets, TLC

\* ---------------------------------------------------------------- bounds
MaxRows == 3        \* rows the live source table holds at most
MaxChunkRows == 2   \* settings.chunk_rows ranges over 1..MaxChunkRows
MaxRetries == 2     \* settings.max_retries ranges over 0..MaxRetries
MaxCommits == 2     \* the commit counters saturate here ("twice or more")
MaxRuns == 2        \* flows (flow_dump / flow_restore) started in one behaviour
MaxLen == 3         \* characters a field value holds at most
MaxBytes == 5       \* bytes a COPY buffer holds at most
MaxBatch == 3       \* settings.insert_batch_size ranges over 1..MaxBatch
MaxDepth == 3       \* activations of ui.py's functions on the stack at most
MaxSignals == 3     \* ui._interrupt_count is followed up to here

MaxChunks == MaxRows   \* chunk_rows >= 1, so no dump has more chunks than rows

Min(a, b) == IF a < b THEN a ELSE b
Max(a, b) == IF a > b THEN a ELSE b

\* ---------------------------------------------------------------- files
\* What a reader finds at the path of a JSON file: no file ("absent"), a file
\* opened for writing whose document is not written yet ("truncated": json.loads
\* raises), or a complete document ("doc").
FileStates == {"absent", "truncated", "doc"}

Modes == {"copy", "insert"}
Exts == {".csv", ".csv.gz", ".sql", ".sql.gz"}
FileNames == (0..(MaxChunks - 1)) \X Exts

Modules == {"ui", "dump", "restore", "cli"}

VARIABLES
    pc,              \* where the process is: "idle" or a position in a flow
    interrupted,     \* the name `interrupted` of each module that has one
    interrupt_count, \* ui._interrupt_count
    table_rows,      \* count(*) of the live source table
    settings,        \* the DumpSettings of the running flow
    manifest,        \* manifest.json as a reader finds it
    last_manifest,   \* the last complete document stored in manifest.json
    chunk_files,     \* the chunk files of the table directory
    d,               \* locals of dump_table
    restore_state,   \* restore_state.json as a reader finds it
    r,               \* locals of restore_table
    dest,            \* copies of each chunk's data the destination holds
    commits,         \* commits of each chunk's data since the beginning
    runs,            \* flows started so far
    report,          \* how the last flow came back to main()
    dest_schema,     \* the destination table: "indexed" (there, with its
                     \* non-PK indexes), "bare" (there, indexes dropped),
                     \* "missing"
    table_columns,   \* the column list of the live source table
    schema_file,     \* whether the table directory holds schema.sql
    hooks,           \* what _pre_restore of the latest restore run sent to
                     \* the destination, in order
    field_type,      \* the type of the field's column: "text" or "int"
    field_value,     \* a field of a source row: its characters, or Null
    copy_field,      \* the field as COPY ... TO STDOUT encodes it
    sql_literal,     \* what _copy_to_inserts makes of it
    dest_value,      \* the field of the row the restore stored
    raw,             \* the bytes one COPY ... TO STDOUT delivered
    batch_size,      \* settings.insert_batch_size
    chunk_row_count, \* the rows dump_table counts in raw
    inserts,         \* the INSERT statements _copy_to_inserts makes of raw:
                     \* each the sequence of its tuples, each tuple the
                     \* sequence of its values
    lock,            \* ui._lock is held
    stack            \* the main thread's activations of reset_interrupt and
                     \* _signal_handler, innermost last, each with the place
                     \* it is at

vars == <<pc, interrupted, interrupt_count, table_rows, settings, manifest,
          last_manifest, chunk_files, d, restore_state, r, dest, commits,
          runs, report, dest_schema, table_columns, schema_file, hooks,
          field_type, field_value,
          copy_field, sql_literal, dest_value,
          raw, batch_size, chunk_row_count, inserts, lock, stack>>

\* The variables of the batching of one COPY buffer.
batch_vars == <<raw, batch_size, chunk_row_count, inserts>>

\* The variables of the field conversion, which the pipelines leave alone.
codec_vars ==
    <<field_type, field_value, copy_field, sql_literal, dest_value, batch_vars,
      lock, stack>>

\* ---------------------------------------------------------------- config.py
\* DumpSettings, the fields the pipelines read (defaults of the dataclass
\* scaled to the bounds).
DefaultSettings ==
    [chunk_rows |-> MaxChunkRows, compress |-> TRUE, dump_mode |-> "copy",
     dump_schema |-> TRUE, use_transactions |-> TRUE,
     truncate_before_restore |-> TRUE, drop_on_restore |-> FALSE,
     recreate_schema |-> FALSE, disable_indexes_on_restore |-> FALSE,
     max_retries |-> MaxRetries, retry_backoff |-> 2]

\* settings_from_dict: any value of the right key is taken, no range check.
\* A dump flow reads chunk_rows, compress and dump_mode; the flows of one
\* behaviour differ in chunk_rows and dump_mode.
DumpSettingsSet ==
    {[DefaultSettings EXCEPT !.chunk_rows = c, !.dump_mode = m] :
        c \in 1..MaxChunkRows, m \in Modes}

\* A restore flow reads max_retries and the switches of its hooks; the flows
\* of one behaviour differ in max_retries, truncate_before_restore,
\* drop_on_restore and disable_indexes_on_restore.
RestoreSettingsSet ==
    {[DefaultSettings EXCEPT !.max_retries = n, !.truncate_before_restore = t,
                             !.drop_on_restore = x,
                             !.disable_indexes_on_restore = i] :
        n \in 0..MaxRetries, t \in BOOLEAN, x \in BOOLEAN, i \in BOOLEAN}

\* ---------------------------------------------------------------- dump.py
IsDoc(f) == f.file = "doc"

\* DumpManifest.chunk_filename (the table name is fixed, the index stands for
\* its six-digit rendering)
chunk_filename(m, idx) ==
    <<idx, IF m.dump_mode = "insert"
           THEN (IF m.compressed THEN ".sql.gz" ELSE ".sql")
           ELSE (IF m.compressed THEN ".csv.gz" ELSE ".csv")>>

\* The table descriptors of the catalog probe: a column list with its primary
\* key, as the live table has it at the time of a run.
ColumnLists == {"a", "b"}

\* _make_manifest: a DumpManifest, the fields the pipelines read.
_make_manifest(table, s, total_rows, chunks_completed, chunks_total, has_schema, finished) ==
    [columns |-> table, has_schema |-> has_schema,
     chunk_rows |-> s.chunk_rows, total_rows |-> total_rows,
     chunks_completed |-> chunks_completed, chunks_total |-> chunks_total,
     finished_at |-> finished, compressed |-> s.compress,
     dump_mode |-> s.dump_mode]

NoManifest == _make_manifest("a", DefaultSettings, 0, 0, 0, FALSE, FALSE)

\* manifest.json
ManifestAbsent == [file |-> "absent", doc |-> NoManifest]
ManifestTruncated == [file |-> "truncated", doc |-> NoManifest]
ManifestDoc(m) == [file |-> "doc", doc |-> m]

\* restore_state.json
StateAbsent == [file |-> "absent", chunks_restored |-> 0]
StateTruncated == [file |-> "truncated", chunks_restored |-> 0]
StateDoc(n) == [file |-> "doc", chunks_restored |-> n]

\* A chunk file: whether it exists and is completely written, the records it
\* holds, and the statements around them if it is an SQL script (none in a
\* copy-mode file).
AbsentFile == [state |-> "absent", rows |-> 0, sql |-> <<>>]
PartialFile == [state |-> "partial", rows |-> 0, sql |-> <<>>]
CompleteFile(n, sql) == [state |-> "complete", rows |-> n, sql |-> sql]

Stmt(cond, stmt) == IF cond THEN <<stmt>> ELSE <<>>

\* A chunk builder that gives the preamble to every chunk.
_build_sql_chunk_every(s, schema_ddl, index_defs, is_first, is_last) ==
    Stmt(s.drop_on_restore, "DROP TABLE")
    \o Stmt(\/ s.recreate_schema /\ schema_ddl
            \/ s.drop_on_restore /\ schema_ddl, "DDL")
    \o Stmt(s.truncate_before_restore /\ ~s.drop_on_restore, "TRUNCATE")
    \o Stmt(s.disable_indexes_on_restore /\ index_defs, "DROP INDEX")
    \o Stmt(s.use_transactions, "BEGIN")
    \o <<"INSERT">>
    \o Stmt(s.use_transactions, "COMMIT")
    \o Stmt(is_last /\ s.disable_indexes_on_restore /\ index_defs, "CREATE INDEX")

\* _build_sql_chunk: the statements of an insert-mode chunk, in order.
\* schema_ddl and index_defs say whether dump_table got a DDL string and a
\* non-empty list of non-PK index definitions.
_build_sql_chunk(s, schema_ddl, index_defs, is_first, is_last) ==
    (IF is_first
     THEN Stmt(s.drop_on_restore, "DROP TABLE")
          \o Stmt(\/ s.recreate_schema /\ schema_ddl
                  \/ s.drop_on_restore /\ schema_ddl, "DDL")
          \o Stmt(s.truncate_before_restore /\ ~s.drop_on_restore, "TRUNCATE")
          \o Stmt(s.disable_indexes_on_restore /\ index_defs, "DROP INDEX")
     ELSE <<>>)
    \o Stmt(s.use_transactions, "BEGIN")
    \o <<"INSERT">>
    \o Stmt(s.use_transactions, "COMMIT")
    \o Stmt(is_last /\ s.disable_indexes_on_restore /\ index_defs, "CREATE INDEX")

Has(sql, stmt) == \E i \in 1..Len(sql) : sql[i] = stmt

IdleDump ==
    [resume |-> TRUE, start_chunk |-> 0, chunk_idx |-> 0, chunks_total |-> 0,
     total_rows |-> 0, raw |-> 0, schema_ddl |-> FALSE, index_defs |-> FALSE,
     conn |-> FALSE, manifest |-> NoManifest, next |-> "idle"]

IdleRestore ==
    [start_chunk |-> 0, chunk_idx |-> 0, chunks_total |-> 0, attempt |-> 0,
     dump_mode |-> "copy", compressed |-> TRUE, has_schema |-> FALSE,
     dropped_indexes |-> FALSE, sleeps |-> <<>>, pending |-> 0,
     next |-> "idle", conn |-> 0]

\* ---------------------------------------------------------------- ui.py
\* import time: ui.interrupted = False, and `from .ui import interrupted` in
\* dump.py, restore.py and cli.py binds each module's own name to that value.
ImportState == [m \in Modules |-> FALSE]

\* A reset that leaves the flag as it is.
reset_interrupt_keep == interrupted

\* reset_interrupt: `global interrupted` names ui's module global.
reset_interrupt == [interrupted EXCEPT !["ui"] = FALSE]

Init ==
    /\ pc = "idle"
    /\ interrupted = ImportState
    /\ interrupt_count = 0
    /\ table_rows = 0
    /\ settings = DefaultSettings
    /\ manifest = ManifestAbsent
    /\ last_manifest = ManifestAbsent
    /\ chunk_files = [f \in FileNames |-> AbsentFile]
    /\ d = IdleDump
    /\ restore_state = StateAbsent
    /\ r = IdleRestore
    /\ dest = [i \in 0..(MaxChunks - 1) |-> 0]
    /\ commits = [i \in 0..(MaxChunks - 1) |-> 0]
    /\ runs = 0
    /\ report = "none"
    /\ dest_schema = "indexed"
    /\ table_columns = "a"
    /\ schema_file = FALSE
    /\ hooks = <<>>
    /\ field_type = "text"
    /\ field_value = <<>>
    /\ copy_field = <<>>
    /\ sql_literal = <<>>
    /\ dest_value = <<>>
    /\ raw = <<>>
    /\ batch_size = 1
    /\ chunk_row_count = 0
    /\ inserts = <<>>
    /\ lock = FALSE
    /\ stack = <<>>


\* Control is back in the menu loop of main(): the locals are gone, and with
\* them the connection that `finally: conn.close()` closed.
Return ==
    /\ pc' = "idle"
    /\ settings' = DefaultSettings
    /\ d' = IdleDump
    /\ r' = IdleRestore

\* ---------------------------------------------------------------- dump_table
\* A dump that ignores the recorded progress and starts over at chunk 0.
start_chunk_restart(resume, m) == 0

\* start_chunk: 0 unless resuming from a manifest.
start_chunk_of(resume, m) ==
    IF resume /\ IsDoc(m) THEN m.doc.chunks_completed ELSE 0

\* A chunk count that rounds down and so loses the last, partial chunk.
chunks_total_floor(total_rows, chunk_rows) == total_rows \div chunk_rows

\* chunks_total = (total_rows + chunk_rows - 1) // chunk_rows
chunks_total_of(total_rows, chunk_rows) ==
    (total_rows + chunk_rows - 1) \div chunk_rows

\* Rows of COPY (SELECT ... LIMIT limit OFFSET offset) TO STDOUT on the live table.
copy_rows(rows, limit, offset) == Min(limit, Max(0, rows - offset))

\* What the catalog probe of a run delivers: whether get_table_ddl returned a
\* DDL string, and whether the table has non-PK indexes that get_index_info
\* returned.
ProbeOutcomes == [ddl_ok : BOOLEAN, indexes : BOOLEAN]

\* The tail of flow_dump / flow_restore after the table loop: "complete!" is
\* printed unless cli.py's own name `interrupted` is set.
FlowReport == IF interrupted["cli"] THEN "paused" ELSE "complete"

\* dump_table from the schema dump to the head of the chunk loop, for a table
\* that has rows: schema_ddl, index_defs, total_rows, chunks_total, manifest.
dump_locals(s, resume, start, total, cols, probe) ==
    [IdleDump EXCEPT
       !.resume = resume, !.start_chunk = start, !.chunk_idx = start,
       !.conn = TRUE, !.total_rows = total,
       !.chunks_total = chunks_total_of(total, s.chunk_rows),
       !.schema_ddl = s.dump_schema /\ probe.ddl_ok,
       !.index_defs = /\ s.dump_mode = "insert"
                      /\ s.disable_indexes_on_restore
                      /\ probe.indexes,
       !.manifest = _make_manifest(cols, s, total, start,
                                   chunks_total_of(total, s.chunk_rows),
                                   s.dump_schema /\ probe.ddl_ok, FALSE)]

\* flow_dump: reset_interrupt(), the `if interrupted: break` of the table loop,
\* then dump_table up to the head of its chunk loop.  A manifest that is no
\* JSON document makes json.loads raise; a finished one is skipped; an empty
\* table gets a finished manifest with no chunks; schema.sql is written when
\* get_table_ddl delivers.  The live table holds n rows in the columns cols by
\* now (it was changed since the last run).
FlowDump(s, resume, n, cols, probe) ==
    /\ pc = "idle"
    /\ runs < MaxRuns
    /\ runs' = runs + 1
    /\ interrupted' = reset_interrupt
    /\ interrupt_count' = 0
    /\ table_rows' = n
    /\ table_columns' = cols
    /\ UNCHANGED <<codec_vars, hooks, dest_schema>>
    /\ UNCHANGED <<last_manifest, chunk_files, restore_state, dest, commits>>
    /\ IF \/ interrupted'["cli"]
          \/ resume /\ manifest.file = "truncated"
          \/ resume /\ IsDoc(manifest) /\ manifest.doc.finished_at
       THEN /\ Return
            /\ UNCHANGED <<manifest, schema_file>>
            /\ report' = IF ~interrupted'["cli"] /\ manifest.file = "truncated"
                         THEN "error"
                         ELSE FlowReport
       ELSE LET start == start_chunk_of(resume, manifest) IN
                /\ settings' = s
                /\ r' = r
                /\ report' = "none"
                /\ schema_file' = (schema_file \/ (s.dump_schema /\ probe.ddl_ok))
                /\ IF n = 0
                   THEN /\ manifest' = ManifestTruncated
                        /\ d' = [IdleDump EXCEPT
                                   !.resume = resume, !.start_chunk = start,
                                   !.conn = TRUE,
                                   !.schema_ddl = s.dump_schema /\ probe.ddl_ok,
                                   !.manifest = _make_manifest(cols, s, 0, 0, 0,
                                                    s.dump_schema /\ probe.ddl_ok, TRUE),
                                   !.next = "idle"]
                        /\ pc' = "d_wm"
                   ELSE /\ manifest' = manifest
                        /\ d' = dump_locals(s, resume, start, n, cols, probe)
                        /\ pc' = "d_loop"

\* `while chunk_idx < chunks_total and not interrupted` tests dump.py's own name.
DumpLoopTest == d.chunk_idx < d.chunks_total /\ ~interrupted["dump"]

\* Loop test true, copy_expert returns: raw holds the chunk's records.
DumpExtract ==
    /\ pc = "d_loop"
    /\ DumpLoopTest
    /\ d' = [d EXCEPT !.raw = copy_rows(table_rows, settings.chunk_rows,
                                        d.chunk_idx * settings.chunk_rows)]
    /\ pc' = "d_open"
    /\ UNCHANGED <<codec_vars, schema_file, hooks, report, dest_schema, table_columns, runs, interrupted, interrupt_count, table_rows, settings, manifest,
                   last_manifest, chunk_files, restore_state, r, dest, commits>>

\* A dump that records the chunk as completed although its extraction failed.
DumpExtractFailAdvance ==
    /\ pc = "d_loop"
    /\ DumpLoopTest
    /\ Return
    /\ report' = "error"
    /\ manifest' = ManifestDoc([d.manifest EXCEPT
                                  !.chunks_completed = d.chunk_idx + 1])
    /\ UNCHANGED <<codec_vars, schema_file, hooks, dest_schema, table_columns, runs, interrupted, interrupt_count, table_rows,
                   last_manifest, chunk_files, restore_state, dest, commits>>

\* Loop test true, copy_expert raises a database error: except Exception, raise.
DumpExtractFail ==
    /\ pc = "d_loop"
    /\ DumpLoopTest
    /\ Return
    /\ report' = "error"
    /\ UNCHANGED <<codec_vars, schema_file, hooks, dest_schema, table_columns, runs, interrupted, interrupt_count, table_rows, manifest,
                   last_manifest, chunk_files, restore_state, dest, commits>>

\* Loop test false.
DumpLoopExit ==
    /\ pc = "d_loop"
    /\ ~DumpLoopTest
    /\ pc' = "d_after"
    /\ UNCHANGED <<codec_vars, schema_file, hooks, report, dest_schema, table_columns, runs, interrupted, interrupt_count, table_rows, settings, manifest,
                   last_manifest, chunk_files, d, restore_state, r, dest, commits>>

\* open(chunk_file, "wb") / gzip.open(chunk_file, "wb"): the path now exists, empty.
DumpOpenChunk ==
    /\ pc = "d_open"
    /\ chunk_files' = [chunk_files EXCEPT
                         ![chunk_filename(d.manifest, d.chunk_idx)] = PartialFile]
    /\ pc' = "d_write"
    /\ UNCHANGED <<codec_vars, schema_file, hooks, report, dest_schema, table_columns, runs, interrupted, interrupt_count, table_rows, settings, manifest,
                   last_manifest, d, restore_state, r, dest, commits>>

\* `if settings.dump_mode == "insert"`: is_first, is_last, _build_sql_chunk.
ChunkSql ==
    IF settings.dump_mode = "insert"
    THEN _build_sql_chunk(settings, d.schema_ddl, d.index_defs,
                          d.chunk_idx = 0 /\ d.start_chunk = 0,
                          d.chunk_idx = d.chunks_total - 1)
    ELSE <<>>

\* f.write(raw) and close succeed.
DumpWriteChunk ==
    /\ pc = "d_write"
    /\ chunk_files' = [chunk_files EXCEPT
                         ![chunk_filename(d.manifest, d.chunk_idx)] =
                             CompleteFile(d.raw, ChunkSql)]
    /\ pc' = "d_record"
    /\ UNCHANGED <<codec_vars, schema_file, hooks, report, dest_schema, table_columns, runs, interrupted, interrupt_count, table_rows, settings, manifest,
                   last_manifest, d, restore_state, r, dest, commits>>

\* f.write(raw) raises (disk full): the file stays as it is, the error propagates.
DumpWriteFail ==
    /\ pc = "d_write"
    /\ Return
    /\ report' = "error"
    /\ UNCHANGED <<codec_vars, schema_file, hooks, dest_schema, table_columns, runs, interrupted, interrupt_count, table_rows, manifest,
                   last_manifest, chunk_files, restore_state, dest, commits>>

\* chunk_idx += 1; manifest.chunks_completed = chunk_idx; _write_manifest opens
\* manifest.json for writing, which truncates it.
DumpRecord ==
    /\ pc = "d_record"
    /\ d' = [d EXCEPT !.chunk_idx = d.chunk_idx + 1,
                      !.manifest.chunks_completed = d.chunk_idx + 1,
                      !.next = "d_loop"]
    /\ manifest' = ManifestTruncated
    /\ pc' = "d_wm"
    /\ UNCHANGED <<codec_vars, schema_file, hooks, report, dest_schema, table_columns, runs, interrupted, interrupt_count, table_rows, settings,
                   last_manifest, chunk_files, restore_state, r, dest, commits>>

\* After the loop: `if not interrupted` sets finished_at and rewrites the
\* manifest, else the table is reported paused.
DumpAfter ==
    /\ pc = "d_after"
    /\ UNCHANGED <<codec_vars, schema_file, hooks, dest_schema, table_columns, runs, interrupted, interrupt_count, table_rows, last_manifest,
                   chunk_files, restore_state, dest, commits>>
    /\ IF ~interrupted["dump"]
       THEN /\ d' = [d EXCEPT !.manifest.finished_at = TRUE, !.next = "idle"]
            /\ manifest' = ManifestTruncated
            /\ pc' = "d_wm"
            /\ UNCHANGED <<settings, r, report>>
       ELSE /\ Return
            /\ UNCHANGED manifest
            /\ report' = FlowReport

\* _write_manifest, the rest of path.write_text: the document is written and
\* the file closed.
WriteManifest ==
    /\ pc = "d_wm"
    /\ manifest' = ManifestDoc(d.manifest)
    /\ last_manifest' = ManifestDoc(d.manifest)
    /\ IF d.next = "idle"
       THEN Return /\ report' = FlowReport
       ELSE pc' = d.next /\ UNCHANGED <<settings, d, r, report>>
    /\ UNCHANGED <<codec_vars, schema_file, hooks, dest_schema, table_columns, runs, interrupted, interrupt_count, table_rows, chunk_files,
                   restore_state, dest, commits>>


\* ---------------------------------------------------------------- restore_table
Sat(n) == Min(n + 1, MaxCommits)

EmptyTable == [i \in 0..(MaxChunks - 1) |-> 0]

\* A reader that takes the extension from the compress switch of the settings
\* it runs with.
restore_chunk_file_settings(dump_mode, compressed, idx) ==
    <<idx, IF dump_mode = "insert"
           THEN (IF settings.compress THEN ".sql.gz" ELSE ".sql")
           ELSE (IF settings.compress THEN ".csv.gz" ELSE ".csv")>>

\* The chunk file restore_table resolves (restore.py builds the name itself).
restore_chunk_file(dump_mode, compressed, idx) ==
    <<idx, IF dump_mode = "insert"
           THEN (IF compressed THEN ".sql.gz" ELSE ".sql")
           ELSE (IF compressed THEN ".csv.gz" ELSE ".csv")>>

\* A restore that ignores the recorded progress and starts over at chunk 0.
restore_start_zero(state) == 0

\* start_chunk of a restore run: chunks_restored of the state file, 0 without one.
restore_start_of(state) == IF IsDoc(state) THEN state.chunks_restored ELSE 0

\* What a connection has done to the destination: its rows, its schema,
\* whether every statement so far went through, and the statements it sent.
Session(rows, schema) ==
    [dest |-> rows, schema |-> schema, ok |-> TRUE, log |-> <<>>]

\* The statement raises.
Raise(st, stmt) == [st EXCEPT !.ok = FALSE, !.log = Append(@, stmt)]

\* The statement goes through, leaving the rows and the schema given.
Done(st, stmt, rows, schema) ==
    [st EXCEPT !.dest = rows, !.schema = schema, !.log = Append(@, stmt)]

\* One statement on the destination.  The DDL of get_table_ddl is CREATE TABLE
\* IF NOT EXISTS followed by plain CREATE INDEX statements, which fail on an
\* index that is there; TRUNCATE, INSERT and COPY need the table.
SqlStep(st, stmt, idx) ==
    IF ~st.ok THEN st
    ELSE CASE stmt = "DROP TABLE" -> Done(st, stmt, EmptyTable, "missing")
           [] stmt = "DDL" ->
                IF st.schema = "indexed" THEN Raise(st, stmt)
                ELSE Done(st, stmt, st.dest, "indexed")
           [] stmt = "TRUNCATE" ->
                IF st.schema = "missing" THEN Raise(st, stmt)
                ELSE Done(st, stmt, EmptyTable, st.schema)
           [] stmt = "DROP INDEX" ->
                Done(st, stmt, st.dest,
                     IF st.schema = "indexed" THEN "bare" ELSE st.schema)
           [] stmt \in {"INSERT", "COPY"} ->
                IF st.schema = "missing" THEN Raise(st, stmt)
                ELSE Done(st, stmt, [st.dest EXCEPT ![idx] = Sat(@)], st.schema)
           [] stmt = "CREATE INDEX" ->
                IF st.schema = "bare" THEN Done(st, stmt, st.dest, "indexed")
                ELSE Raise(st, stmt)
           [] OTHER -> Done(st, stmt, st.dest, st.schema)

RECURSIVE Exec(_, _, _, _)
\* The first n statements of sql, in order.
Exec(sql, n, st, idx) ==
    IF n = 0 THEN st ELSE SqlStep(Exec(sql, n - 1, st, idx), sql[n], idx)

\* A _pre_restore that truncates before it drops and recreates.
_pre_restore_truncate_first(s, has_schema, schema_exists, truncate_ok) ==
    LET st0 == Session(dest, dest_schema)
        st1 == IF s.truncate_before_restore /\ ~s.drop_on_restore /\ truncate_ok
               THEN SqlStep(st0, "TRUNCATE", 0) ELSE st0
        st2 == IF s.drop_on_restore
               THEN SqlStep([st1 EXCEPT !.ok = TRUE], "DROP TABLE", 0)
               ELSE [st1 EXCEPT !.ok = TRUE]
    IN  IF s.recreate_schema /\ has_schema /\ schema_exists
        THEN SqlStep(st2, "DDL", 0) ELSE st2

\* A _pre_restore whose failed TRUNCATE is rolled back and raised again.
_pre_restore_truncate_fatal(s, has_schema, schema_exists, truncate_ok) ==
    LET st0 == Session(dest, dest_schema)
        st1 == IF s.drop_on_restore THEN SqlStep(st0, "DROP TABLE", 0) ELSE st0
        st2 == IF s.recreate_schema /\ has_schema /\ schema_exists
               THEN SqlStep(st1, "DDL", 0) ELSE st1
        st3 == IF s.truncate_before_restore /\ ~s.drop_on_restore
               THEN SqlStep(st2, "TRUNCATE", 0) ELSE st2
    IN  IF ~st2.ok THEN [st1 EXCEPT !.ok = FALSE, !.log = st2.log]
        ELSE IF st3.log # st2.log /\ (~st3.ok \/ ~truncate_ok)
        THEN [st2 EXCEPT !.ok = FALSE, !.log = Append(st3.log, "ROLLBACK")]
        ELSE st3

\* _pre_restore on the destination: DROP TABLE if drop_on_restore; the DDL of
\* schema.sql if recreate_schema and has_schema and the file is there, whose
\* failure propagates; TRUNCATE if truncate_before_restore and not
\* drop_on_restore, whose failure (truncate_ok false: a failure the schema does
\* not explain) is rolled back and ignored.  Each is committed on its own.
_pre_restore(s, has_schema, schema_exists, truncate_ok) ==
    LET st0 == Session(dest, dest_schema)
        st1 == IF s.drop_on_restore THEN SqlStep(st0, "DROP TABLE", 0) ELSE st0
        st2 == IF s.recreate_schema /\ has_schema /\ schema_exists
               THEN SqlStep(st1, "DDL", 0) ELSE st1
        st3 == IF s.truncate_before_restore /\ ~s.drop_on_restore
               THEN SqlStep(st2, "TRUNCATE", 0) ELSE st2
    IN  IF ~st2.ok THEN [st1 EXCEPT !.ok = FALSE, !.log = st2.log]
        ELSE IF st3.log # st2.log /\ (~st3.ok \/ ~truncate_ok)
        THEN [st2 EXCEPT !.log = Append(st3.log, "ROLLBACK")]
        ELSE st3

\* A restore that never takes a table for restored.
already_restored_never(state, m) == FALSE

\* `if start_chunk >= chunks_total`: skipping, already restored.
already_restored(state, m) ==
    IsDoc(state) /\ state.chunks_restored >= m.chunks_total

\* How _drop_non_pk_indexes can go: the drops commit; the catalog query fails;
\* a DROP INDEX fails after definitions were collected (all rolled back).
DropOutcomes == {"ok", "query failed", "drop failed"}

\* flow_restore: reset_interrupt(), the `if interrupted: break` of the table
\* loop, then restore_table up to its pre-restore operations: manifest and
\* state file are read; an empty dump and a restore already complete return.
FlowRestore(s) ==
    /\ pc = "idle"
    /\ runs < MaxRuns
    /\ runs' = runs + 1
    /\ interrupted' = reset_interrupt
    /\ interrupt_count' = 0
    /\ hooks' = <<>>
    /\ UNCHANGED <<codec_vars, schema_file, table_columns, dest, dest_schema>>
    /\ UNCHANGED <<table_rows, manifest, last_manifest, chunk_files,
                   restore_state, commits>>
    /\ IF \/ interrupted'["cli"]
          \/ ~IsDoc(manifest)
          \/ manifest.doc.total_rows = 0
          \/ restore_state.file = "truncated"
          \/ already_restored(restore_state, manifest.doc)
       THEN /\ Return
            /\ report' = IF /\ ~interrupted'["cli"]
                            /\ \/ manifest.file = "truncated"
                               \/ IsDoc(manifest) /\ manifest.doc.total_rows # 0
                                    /\ restore_state.file = "truncated"
                         THEN "error"
                         ELSE FlowReport
       ELSE LET start == restore_start_of(restore_state) IN
                /\ settings' = s
                /\ d' = d
                /\ r' = [IdleRestore EXCEPT
                           !.start_chunk = start, !.chunk_idx = start,
                           !.chunks_total = manifest.doc.chunks_total,
                           !.dump_mode = manifest.doc.dump_mode,
                           !.compressed = manifest.doc.compressed,
                           !.has_schema = manifest.doc.has_schema]
                /\ report' = "none"
                /\ pc' = IF start = 0 THEN "r_pre" ELSE "r_loop"

\* `if start_chunk == 0: _pre_restore(...)`: the hooks run, each committed on
\* its own; a failing DDL propagates out of restore_table.
PreRestore(truncate_ok) ==
    /\ pc = "r_pre"
    /\ LET pre == _pre_restore(settings, r.has_schema, schema_file, truncate_ok)
       IN  /\ dest' = pre.dest
           /\ dest_schema' = pre.schema
           /\ hooks' = pre.log
           /\ IF ~pre.ok
              THEN Return /\ report' = "error"
              ELSE /\ pc' = IF settings.disable_indexes_on_restore
                            THEN "r_drop" ELSE "r_loop"
                   /\ UNCHANGED <<settings, d, r, report>>
    /\ UNCHANGED <<codec_vars, schema_file, table_columns, runs, interrupted,
                   interrupt_count, table_rows, manifest, last_manifest,
                   chunk_files, restore_state, commits>>

\* `if settings.disable_indexes_on_restore and start_chunk == 0`:
\* _drop_non_pk_indexes returns the definitions it collected, also when its
\* drops were rolled back.
DropIndexes(drop_outcome) ==
    /\ pc = "r_drop"
    /\ dest_schema' = IF dest_schema = "indexed" /\ drop_outcome = "ok"
                      THEN "bare" ELSE dest_schema
    /\ r' = [r EXCEPT !.dropped_indexes =
                          dest_schema = "indexed" /\ drop_outcome # "query failed"]
    /\ pc' = "r_loop"
    /\ UNCHANGED <<codec_vars, schema_file, hooks, table_columns, runs,
                   interrupted, interrupt_count, table_rows, settings, manifest,
                   last_manifest, chunk_files, d, restore_state, dest, commits,
                   report>>

\* for chunk_idx in range(start_chunk, chunks_total): `if interrupted` tests
\* restore.py's own name.
RestoreLoopTest == r.chunk_idx < r.chunks_total /\ ~interrupted["restore"]

RestoreChunkFile == restore_chunk_file(r.dump_mode, r.compressed, r.chunk_idx)

\* Range exhausted, or break on interrupt: `if dropped_indexes and not
\* interrupted` runs _rebuild_indexes, whose failure is caught and reported;
\* then restore_table returns.
RestoreLoopExit(rebuild_ok) ==
    /\ pc = "r_loop"
    /\ ~RestoreLoopTest
    /\ dest_schema' =
          IF r.dropped_indexes /\ ~interrupted["restore"] /\ rebuild_ok
          THEN SqlStep(Session(dest, dest_schema), "CREATE INDEX", 0).schema
          ELSE dest_schema
    /\ Return
    /\ report' = FlowReport
    /\ UNCHANGED <<codec_vars, schema_file, hooks, table_columns, runs, interrupted, interrupt_count, table_rows, manifest,
                   last_manifest, chunk_files, restore_state, dest, commits>>

\* `if not chunk_file.exists()`: message, return.
RestoreMissingChunk ==
    /\ pc = "r_loop"
    /\ RestoreLoopTest
    /\ chunk_files[RestoreChunkFile].state = "absent"
    /\ Return
    /\ report' = FlowReport
    /\ UNCHANGED <<codec_vars, schema_file, hooks, dest_schema, table_columns, runs, interrupted, interrupt_count, table_rows, manifest,
                   last_manifest, chunk_files, restore_state, dest, commits>>

\* Attempts that all work on the connection of the first.
shared_connection(attempt) == 1

\* `conn = connect(db_cfg, dbname)` of an attempt: a connection of its own,
\* named by the attempt's number; 0 stands for no open connection.
attempt_connection(attempt) == attempt

\* The chunk file is read; `for attempt in range(1, max_retries + 1)` starts,
\* and with max_retries < 1 its body never runs.
RestoreReadChunk ==
    /\ pc = "r_loop"
    /\ RestoreLoopTest
    /\ chunk_files[RestoreChunkFile].state # "absent"
    /\ IF settings.max_retries >= 1
       THEN /\ r' = [r EXCEPT !.attempt = 1, !.conn = attempt_connection(1)]
            /\ pc' = "r_apply"
       ELSE /\ r' = r
            /\ pc' = "r_state"
    /\ UNCHANGED <<codec_vars, schema_file, hooks, report, dest_schema, table_columns, runs, interrupted, interrupt_count, table_rows, settings, manifest,
                   last_manifest, chunk_files, d, restore_state, dest, commits>>

\* What an attempt sends: the script of an insert-mode chunk, or one COPY ...
\* FROM STDIN with the bytes of a copy-mode chunk.
ChunkStatements ==
    IF r.dump_mode = "insert" THEN chunk_files[RestoreChunkFile].sql
    ELSE <<"COPY">>

\* The statements up to and with the script's own COMMIT; none without one.
CommittedPrefix(sql) ==
    IF Has(sql, "COMMIT") THEN CHOOSE i \in 1..Len(sql) : sql[i] = "COMMIT" ELSE 0

\* An attempt succeeds: execute / copy_expert, conn.commit(), break, and
\* conn.close() on the way out.
RestoreApplyOk ==
    /\ pc = "r_apply"
    /\ LET st == Exec(ChunkStatements, Len(ChunkStatements),
                      Session(dest, dest_schema), r.chunk_idx)
       IN  /\ st.ok
           /\ dest' = st.dest
           /\ dest_schema' = st.schema
    /\ commits' = [commits EXCEPT ![r.chunk_idx] = Sat(commits[r.chunk_idx])]
    /\ r' = [r EXCEPT !.conn = 0]
    /\ pc' = "r_state"
    /\ UNCHANGED <<codec_vars, schema_file, hooks, report, table_columns, runs, interrupted, interrupt_count, table_rows, settings, manifest,
                   last_manifest, chunk_files, d, restore_state>>

\* A wait that is one power short.
backoff_wait_short(s, attempt) == s.retry_backoff ^ (attempt - 1)

\* wait = settings.retry_backoff ** attempt
backoff_wait(s, attempt) == s.retry_backoff ^ attempt

\* `except Exception as e` of the attempt loop, reached through the attempt's
\* conn.close(): sleep and retry on a new connection while attempt <
\* max_retries, else open the state file to store chunk_idx and raise.
AttemptFailed ==
    IF r.attempt < settings.max_retries
    THEN /\ r' = [r EXCEPT !.attempt = r.attempt + 1,
                           !.sleeps = Append(@, backoff_wait(settings, r.attempt)),
                           !.conn = attempt_connection(r.attempt + 1)]
         /\ pc' = "r_apply"
         /\ UNCHANGED restore_state
    ELSE /\ r' = [r EXCEPT !.pending = r.chunk_idx, !.next = "raise",
                           !.conn = 0]
         /\ restore_state' = StateTruncated
         /\ pc' = "r_ws"

\* An attempt fails (connect, a statement, the commit): conn.rollback() undoes
\* what the connection's transaction did, close.
RestoreApplyFail ==
    /\ pc = "r_apply"
    /\ AttemptFailed
    /\ UNCHANGED <<codec_vars, schema_file, hooks, report, dest_schema, table_columns, runs, interrupted, interrupt_count, table_rows, settings, manifest,
                   last_manifest, chunk_files, d, dest, commits>>

\* An attempt on a script with its own COMMIT fails in a statement after it
\* (the CREATE INDEX epilogue): what the script committed stays, conn.rollback()
\* finds nothing to undo.
RestoreApplyLateFail ==
    /\ pc = "r_apply"
    /\ LET sql == ChunkStatements
           st == Exec(sql, CommittedPrefix(sql), Session(dest, dest_schema),
                      r.chunk_idx)
       IN  /\ CommittedPrefix(sql) > 0
           /\ CommittedPrefix(sql) < Len(sql)
           /\ st.ok
           /\ dest' = st.dest
           /\ dest_schema' = st.schema
    /\ commits' = [commits EXCEPT ![r.chunk_idx] = Sat(commits[r.chunk_idx])]
    /\ AttemptFailed
    /\ UNCHANGED <<codec_vars, schema_file, hooks, report, table_columns, runs, interrupted, interrupt_count, table_rows, settings, manifest,
                   last_manifest, chunk_files, d>>

\* state_file.write_text({"chunks_restored": chunk_idx + 1}) opens the file.
RestoreRecord ==
    /\ pc = "r_state"
    /\ r' = [r EXCEPT !.pending = r.chunk_idx + 1, !.next = "r_loop"]
    /\ restore_state' = StateTruncated
    /\ pc' = "r_ws"
    /\ UNCHANGED <<codec_vars, schema_file, hooks, report, dest_schema, table_columns, runs, interrupted, interrupt_count, table_rows, settings, manifest,
                   last_manifest, chunk_files, d, dest, commits>>

\* The rest of state_file.write_text: the document is written, the file closed;
\* then the next iteration, or the `raise` of the last failed attempt.
WriteState ==
    /\ pc = "r_ws"
    /\ restore_state' = StateDoc(r.pending)
    /\ IF r.next = "raise"
       THEN Return /\ report' = "error"
       ELSE /\ r' = [r EXCEPT !.chunk_idx = r.chunk_idx + 1, !.attempt = 0,
                                !.sleeps = <<>>]
            /\ pc' = "r_loop"
            /\ UNCHANGED <<settings, d, report>>
    /\ UNCHANGED <<codec_vars, schema_file, hooks, dest_schema, table_columns, runs, interrupted, interrupt_count, table_rows, manifest,
                   last_manifest, chunk_files, dest, commits>>

\* ---------------------------------------------------------------- signals
\* _signal_handler: the first SIGINT of a flow sets ui.interrupted, every later
\* one raises KeyboardInterrupt in the main thread, which unwinds the flow
\* (dump_table: conn.cancel(), re-raise, conn.close()) back to main().
SIGINT ==
    /\ pc # "idle"
    /\ interrupt_count' = interrupt_count + 1
    /\ IF interrupt_count' = 1
       THEN /\ interrupted' = [interrupted EXCEPT !["ui"] = TRUE]
            /\ UNCHANGED <<pc, settings, d, r, report>>
       ELSE /\ interrupted' = interrupted
            /\ Return
            /\ report' = "interrupted"
    /\ UNCHANGED <<codec_vars, schema_file, hooks, dest_schema, table_columns, runs, table_rows, manifest, last_manifest, chunk_files,
                   restore_state, dest, commits>>

\* The process dies (kill, power loss) and is started again: the modules are
\* imported afresh, the files stay as they are.
Crash ==
    /\ pc # "idle"
    /\ interrupted' = ImportState
    /\ interrupt_count' = 0
    /\ Return
    /\ report' = "none"
    /\ UNCHANGED <<codec_vars, schema_file, hooks, dest_schema, table_columns, runs, table_rows, manifest, last_manifest, chunk_files,
                   restore_state, dest, commits>>

\* ---------------------------------------------------------------- specifications
\* flow_dump, the only caller of dump_table, passes no `resume`: the default.
ResumeArgs == {TRUE}

\* The dump pipeline: flow_dump runs on one table directory, with signals,
\* crashes and a source table that changes between runs.
Next ==
    \/ \E s \in DumpSettingsSet, resume \in ResumeArgs, n \in 0..MaxRows,
          cols \in ColumnLists :
          FlowDump(s, resume, n, cols, [ddl_ok |-> TRUE, indexes |-> TRUE])
    \/ DumpExtract
    \/ DumpExtractFail
    \/ DumpLoopExit
    \/ DumpOpenChunk
    \/ DumpWriteChunk
    \/ DumpWriteFail
    \/ DumpRecord
    \/ DumpAfter
    \/ WriteManifest
    \/ SIGINT
    \/ Crash

Spec == Init /\ [][Next]_vars

\* The settings a dump that left insert-mode chunks may have run with: the
\* defaults, or disable_indexes_on_restore with any use_transactions and
\* truncate_before_restore.
DumpTimeSettings(s) ==
    IF s.dump_mode = "insert"
    THEN {s} \cup {[s EXCEPT !.use_transactions = u,
                             !.disable_indexes_on_restore = TRUE,
                             !.truncate_before_restore = t] :
                      u \in BOOLEAN, t \in BOOLEAN}
    ELSE {s}

\* A table directory a dump left behind, finished or stopped after k chunks
\* were recorded, and the source table it was taken from.
DumpDirectory ==
    /\ \E total \in 0..MaxRows, s0 \in DumpSettingsSet, z \in BOOLEAN :
         \E s \in DumpTimeSettings([s0 EXCEPT !.compress = z]) :
         LET ct == chunks_total_of(total, s.chunk_rows)
             has_schema == s.dump_schema IN
         \E k \in (IF ct = 0 THEN {0} ELSE 1..ct) :
            /\ table_rows = total
            /\ manifest = ManifestDoc(_make_manifest("a", s, total, k, ct,
                                                     has_schema, k = ct))
            /\ last_manifest = manifest
            /\ schema_file = has_schema
            /\ chunk_files =
                 [f \in FileNames |->
                    IF f[1] < k /\ f = chunk_filename(manifest.doc, f[1])
                    THEN CompleteFile(
                           copy_rows(total, s.chunk_rows, f[1] * s.chunk_rows),
                           IF s.dump_mode = "insert"
                           THEN _build_sql_chunk(s, has_schema,
                                                 s.disable_indexes_on_restore,
                                                 f[1] = 0, f[1] = ct - 1)
                           ELSE <<>>)
                    ELSE AbsentFile]

\* The restore pipeline: flow_restore runs on a table directory a dump left
\* behind (finished, or stopped after k chunks were recorded), with signals and
\* crashes, into a destination that is empty at first.
RestoreInit ==
    /\ pc = "idle"
    /\ interrupted = ImportState
    /\ interrupt_count = 0
    /\ settings = DefaultSettings
    /\ d = IdleDump
    /\ restore_state = StateAbsent
    /\ r = IdleRestore
    /\ dest = EmptyTable
    /\ commits = EmptyTable
    /\ runs = 0
    /\ report = "none"
    /\ dest_schema = "indexed"
    /\ table_columns = "a"
    /\ hooks = <<>>
    /\ field_type = "text"
    /\ field_value = <<>>
    /\ copy_field = <<>>
    /\ sql_literal = <<>>
    /\ dest_value = <<>>
    /\ raw = <<>>
    /\ batch_size = 1
    /\ chunk_row_count = 0
    /\ inserts = <<>>
    /\ lock = FALSE
    /\ stack = <<>>
    /\ DumpDirectory

RestoreNext ==
    \/ \E s \in RestoreSettingsSet : FlowRestore(s)
    \/ \E truncate_ok \in BOOLEAN : PreRestore(truncate_ok)
    \/ \E drop_outcome \in DropOutcomes : DropIndexes(drop_outcome)
    \/ \E rebuild_ok \in BOOLEAN : RestoreLoopExit(rebuild_ok)
    \/ RestoreMissingChunk
    \/ RestoreReadChunk
    \/ RestoreApplyOk
    \/ RestoreApplyFail
    \/ RestoreApplyLateFail
    \/ RestoreRecord
    \/ WriteState
    \/ SIGINT
    \/ Crash

RestoreSpec == RestoreInit /\ [][RestoreNext]_vars


\* Flows of both kinds on a table directory some dump left behind, with a
\* restore_state.json some restore left behind.
RerunRestoreSettings ==
    {[DefaultSettings EXCEPT !.max_retries = n, !.drop_on_restore = x] :
        n \in 0..MaxRetries, x \in BOOLEAN}

RerunInit ==
    /\ pc = "idle"
    /\ interrupted = ImportState
    /\ interrupt_count = 0
    /\ settings = DefaultSettings
    /\ d = IdleDump
    /\ r = IdleRestore
    /\ dest = EmptyTable
    /\ commits = EmptyTable
    /\ runs = 0
    /\ report = "none"
    /\ dest_schema = "indexed"
    /\ table_columns = "a"
    /\ hooks = <<>>
    /\ field_type = "text"
    /\ field_value = <<>>
    /\ copy_field = <<>>
    /\ sql_literal = <<>>
    /\ dest_value = <<>>
    /\ raw = <<>>
    /\ batch_size = 1
    /\ chunk_row_count = 0
    /\ inserts = <<>>
    /\ lock = FALSE
    /\ stack = <<>>
    /\ DumpDirectory
    /\ restore_state \in {StateAbsent} \cup {StateDoc(n) : n \in 0..MaxChunks}

RerunNext ==
    \/ \E s \in DumpSettingsSet, resume \in ResumeArgs, n \in 0..MaxRows :
          FlowDump(s, resume, n, "a", [ddl_ok |-> TRUE, indexes |-> TRUE])
    \/ DumpExtract
    \/ DumpExtractFail
    \/ DumpLoopExit
    \/ DumpOpenChunk
    \/ DumpWriteChunk
    \/ DumpWriteFail
    \/ DumpRecord
    \/ DumpAfter
    \/ WriteManifest
    \/ \E s \in RerunRestoreSettings : FlowRestore(s)
    \/ \E truncate_ok \in BOOLEAN : PreRestore(truncate_ok)
    \/ \E rebuild_ok \in BOOLEAN : RestoreLoopExit(rebuild_ok)
    \/ RestoreMissingChunk
    \/ RestoreReadChunk
    \/ RestoreApplyOk
    \/ RestoreApplyFail
    \/ RestoreRecord
    \/ WriteState
    \/ SIGINT

RerunSpec == RerunInit /\ [][RerunNext]_vars

\* Restore flows under every combination of the switches _pre_restore reads,
\* with one attempt per chunk or with one more than MaxRetries, on a dump of
\* MaxRows rows of which some or all chunks were written, with or without
\* schema.sql, into a destination whose table is there or not.
HookSettingsSet ==
    {[DefaultSettings EXCEPT !.max_retries = n, !.truncate_before_restore = t,
                             !.drop_on_restore = x, !.recreate_schema = c,
                             !.disable_indexes_on_restore = i] :
        n \in {1, MaxRetries + 1}, t \in BOOLEAN, x \in BOOLEAN, c \in BOOLEAN,
        i \in BOOLEAN}

\* The settings of the dump that left the directory: an insert-mode dump was
\* made with disable_indexes_on_restore.
HookDumpSettings(m) ==
    [DefaultSettings EXCEPT !.dump_mode = m,
                            !.disable_indexes_on_restore = (m = "insert")]

HookInit ==
    /\ pc = "idle"
    /\ interrupted = ImportState
    /\ interrupt_count = 0
    /\ settings = DefaultSettings
    /\ d = IdleDump
    /\ restore_state = StateAbsent
    /\ r = IdleRestore
    /\ dest = EmptyTable
    /\ commits = EmptyTable
    /\ runs = 0
    /\ report = "none"
    /\ table_columns = "a"
    /\ hooks = <<>>
    /\ field_type = "text"
    /\ field_value = <<>>
    /\ copy_field = <<>>
    /\ sql_literal = <<>>
    /\ dest_value = <<>>
    /\ raw = <<>>
    /\ batch_size = 1
    /\ chunk_row_count = 0
    /\ inserts = <<>>
    /\ lock = FALSE
    /\ stack = <<>>
    /\ table_rows = MaxRows
    /\ dest_schema \in {"indexed", "missing"}
    /\ schema_file \in BOOLEAN
    /\ \E has_schema \in BOOLEAN, m \in Modes :
         LET ct == chunks_total_of(MaxRows, MaxChunkRows)
             s == HookDumpSettings(m) IN
         \E k \in 1..ct :
            /\ manifest = ManifestDoc(_make_manifest("a", s, MaxRows, k, ct,
                                                     has_schema, k = ct))
            /\ last_manifest = manifest
            /\ chunk_files =
                 [f \in FileNames |->
                    IF f[1] < k /\ f = chunk_filename(manifest.doc, f[1])
                    THEN CompleteFile(
                           copy_rows(MaxRows, MaxChunkRows, f[1] * MaxChunkRows),
                           IF m = "insert"
                           THEN _build_sql_chunk(s, has_schema, TRUE,
                                                 f[1] = 0, f[1] = ct - 1)
                           ELSE <<>>)
                    ELSE AbsentFile]

HookNext ==
    \/ \E s \in HookSettingsSet : FlowRestore(s)
    \/ \E truncate_ok \in BOOLEAN : PreRestore(truncate_ok)
    \/ \E drop_outcome \in DropOutcomes : DropIndexes(drop_outcome)
    \/ \E rebuild_ok \in BOOLEAN : RestoreLoopExit(rebuild_ok)
    \/ RestoreMissingChunk
    \/ RestoreReadChunk
    \/ RestoreApplyOk
    \/ RestoreApplyFail
    \/ RestoreApplyLateFail
    \/ RestoreRecord
    \/ WriteState
    \/ SIGINT
    \/ Crash

HookSpec == HookInit /\ [][HookNext]_vars

\* One insert-mode dump flow under every combination of the switches that
\* _build_sql_chunk and the schema dump of dump_table read, and every outcome
\* of the catalog probe.
BuildSettingsSet ==
    {[DefaultSettings EXCEPT !.dump_mode = "insert", !.chunk_rows = c,
                             !.dump_schema = ds, !.use_transactions = u,
                             !.truncate_before_restore = t,
                             !.drop_on_restore = x, !.recreate_schema = rs,
                             !.disable_indexes_on_restore = i] :
        c \in 1..MaxChunkRows, ds \in BOOLEAN, u \in BOOLEAN, t \in BOOLEAN,
        x \in BOOLEAN, rs \in BOOLEAN, i \in BOOLEAN}

BuildInit ==
    /\ pc = "idle"
    /\ interrupted = ImportState
    /\ interrupt_count = 0
    /\ table_rows = 0
    /\ settings = DefaultSettings
    /\ manifest = ManifestAbsent
    /\ last_manifest = ManifestAbsent
    /\ \E died \in BOOLEAN :
          chunk_files = [f \in FileNames |->
                           IF died /\ f = <<0, ".sql.gz">>
                           THEN PartialFile ELSE AbsentFile]
    /\ d = IdleDump
    /\ restore_state = StateAbsent
    /\ r = IdleRestore
    /\ dest = EmptyTable
    /\ commits = EmptyTable
    /\ runs = MaxRuns - 1
    /\ report = "none"
    /\ dest_schema = "indexed"
    /\ table_columns = "a"
    /\ schema_file = FALSE
    /\ hooks = <<>>
    /\ field_type = "text"
    /\ field_value = <<>>
    /\ copy_field = <<>>
    /\ sql_literal = <<>>
    /\ dest_value = <<>>
    /\ raw = <<>>
    /\ batch_size = 1
    /\ chunk_row_count = 0
    /\ inserts = <<>>
    /\ lock = FALSE
    /\ stack = <<>>

BuildNext ==
    \/ \E s \in BuildSettingsSet, n \in 0..MaxRows, probe \in ProbeOutcomes :
          FlowDump(s, TRUE, n, "a", probe)
    \/ DumpExtract
    \/ DumpExtractFail
    \/ DumpLoopExit
    \/ DumpOpenChunk
    \/ DumpWriteChunk
    \/ DumpWriteFail
    \/ DumpRecord
    \/ DumpAfter
    \/ WriteManifest

BuildSpec == BuildInit /\ [][BuildNext]_vars

\* ---------------------------------------------------------------- fields
\* One field of one row on its way from the source table through a chunk file
\* into the destination.  A value is the sequence of its characters; the
\* characters that matter to the conversions are the backslash, the single
\* quote, the letters that follow a backslash in an escape, and the control
\* characters line feed, tab and backspace.
BACKSLASH == "\\"
QUOTE == "'"
LF == "LF"
TAB == "TAB"
BS == "BS"
NUL == "NUL"
Chars == {BACKSLASH, QUOTE, "n", "N", "b", LF, TAB, BS}

\* SQL NULL, and the literal NULL of an INSERT.
Null == <<"NULL">>

RECURSIVE StringsUpTo(_)
StringsUpTo(n) ==
    IF n = 0 THEN {<<>>}
    ELSE LET shorter == StringsUpTo(n - 1) IN
         shorter \cup {Append(v, c) : v \in shorter, c \in Chars}

FieldValues == StringsUpTo(MaxLen) \cup {Null}

\* The column types of the table t(id int, s text), and the values of an
\* integer column as COPY writes them: digits.
ColumnTypes == {"int", "text"}
Digits == {"1", "2"}
IntValues ==
    {v \in UNION {[1..n -> Digits] : n \in 1..(MaxLen - 1)} : TRUE} \cup {Null}

RECURSIVE CopyOutText(_)
\* COPY ... TO STDOUT, text format, of a non-null value: backslash, line feed,
\* tab and backspace leave as backslash sequences, other characters as they are.
CopyOutText(v) ==
    IF v = <<>> THEN <<>>
    ELSE (CASE v[1] = BACKSLASH -> <<BACKSLASH, BACKSLASH>>
            [] v[1] = LF -> <<BACKSLASH, "n">>
            [] v[1] = TAB -> <<BACKSLASH, "t">>
            [] v[1] = BS -> <<BACKSLASH, "b">>
            [] OTHER -> <<v[1]>>) \o CopyOutText(Tail(v))

\* The field of the COPY output for a value: \N for NULL.
CopyOut(v) == IF v = Null THEN <<BACKSLASH, "N">> ELSE CopyOutText(v)

RECURSIVE CopyInText(_)
\* COPY ... FROM STDIN, text format: a backslash and the character after it
\* are one character.
CopyInText(f) ==
    IF f = <<>> THEN <<>>
    ELSE IF f[1] = BACKSLASH /\ Len(f) >= 2
    THEN <<(CASE f[2] = "n" -> LF
              [] f[2] = "t" -> TAB
              [] f[2] = "b" -> BS
              [] OTHER -> f[2])>> \o CopyInText(SubSeq(f, 3, Len(f)))
    ELSE <<f[1]>> \o CopyInText(Tail(f))

CopyIn(f) == IF f = <<BACKSLASH, "N">> THEN Null ELSE CopyInText(f)

RECURSIVE replace(_, _, _)
\* bytes.replace(old, new): the occurrences of old, left to right, not
\* overlapping.
replace(s, old, new) ==
    IF Len(s) < Len(old) THEN s
    ELSE IF SubSeq(s, 1, Len(old)) = old
    THEN new \o replace(SubSeq(s, Len(old) + 1, Len(s)), old, new)
    ELSE <<s[1]>> \o replace(Tail(s), old, new)

\* The chain of replace calls of _copy_to_inserts on a field.
unescape(f) ==
    replace(replace(replace(replace(f,
        <<BACKSLASH, BACKSLASH>>, <<NUL>>),
        <<BACKSLASH, "n">>, <<LF>>),
        <<BACKSLASH, "t">>, <<TAB>>),
        <<NUL>>, <<BACKSLASH>>)

\* _copy_to_inserts on one field: NULL for \N, else the unescaped text with its
\* single quotes doubled, in single quotes.
_copy_to_inserts(f) ==
    IF f = <<BACKSLASH, "N">> THEN Null
    ELSE <<QUOTE>> \o replace(unescape(f), <<QUOTE>>, <<QUOTE, QUOTE>>)
                   \o <<QUOTE>>

\* The value of a string literal of an INSERT (standard_conforming_strings):
\* the text between the quotes, each doubled quote one quote.
SqlValue(lit) ==
    IF lit = Null THEN Null
    ELSE replace(SubSeq(lit, 2, Len(lit) - 1), <<QUOTE, QUOTE>>, <<QUOTE>>)

\* copy_expert(COPY (SELECT ...) TO STDOUT) of dump_table, for one field.
CopyTo ==
    /\ pc = "c_value"
    /\ copy_field' = CopyOut(field_value)
    /\ pc' = IF settings.dump_mode = "insert" THEN "c_convert" ELSE "c_file"
    /\ UNCHANGED <<field_type, field_value, sql_literal, dest_value, batch_vars, lock, stack>>
    /\ UNCHANGED <<interrupted, interrupt_count, table_rows, settings, manifest,
                   last_manifest, chunk_files, d, restore_state, r, dest,
                   commits, runs, report, dest_schema, table_columns,
                   schema_file, hooks>>

\* Insert mode: the chunk file holds what _copy_to_inserts makes of the field.
CopyToInserts ==
    /\ pc = "c_convert"
    /\ sql_literal' = _copy_to_inserts(copy_field)
    /\ pc' = "c_file"
    /\ UNCHANGED <<field_type, field_value, copy_field, dest_value, batch_vars, lock, stack>>
    /\ UNCHANGED <<interrupted, interrupt_count, table_rows, settings, manifest,
                   last_manifest, chunk_files, d, restore_state, r, dest,
                   commits, runs, report, dest_schema, table_columns,
                   schema_file, hooks>>

\* restore_table applies the chunk: COPY ... FROM STDIN for a copy-mode chunk,
\* cur.execute of the INSERT for an insert-mode chunk.
RestoreField ==
    /\ pc = "c_file"
    /\ dest_value' = IF settings.dump_mode = "insert"
                     THEN SqlValue(sql_literal)
                     ELSE CopyIn(copy_field)
    /\ pc' = "c_done"
    /\ UNCHANGED <<field_type, field_value, copy_field, sql_literal, batch_vars, lock, stack>>
    /\ UNCHANGED <<interrupted, interrupt_count, table_rows, settings, manifest,
                   last_manifest, chunk_files, d, restore_state, r, dest,
                   commits, runs, report, dest_schema, table_columns,
                   schema_file, hooks>>

CodecInit ==
    /\ pc = "c_value"
    /\ interrupted = ImportState
    /\ interrupt_count = 0
    /\ table_rows = 1
    /\ \E m \in Modes : settings = [DefaultSettings EXCEPT !.dump_mode = m]
    /\ manifest = ManifestAbsent
    /\ last_manifest = ManifestAbsent
    /\ chunk_files = [f \in FileNames |-> AbsentFile]
    /\ d = IdleDump
    /\ restore_state = StateAbsent
    /\ r = IdleRestore
    /\ dest = EmptyTable
    /\ commits = EmptyTable
    /\ runs = 0
    /\ report = "none"
    /\ dest_schema = "indexed"
    /\ table_columns = "a"
    /\ schema_file = FALSE
    /\ hooks = <<>>
    /\ field_type \in ColumnTypes
    /\ field_value \in (IF field_type = "int" THEN IntValues ELSE FieldValues)
    /\ copy_field = <<>>
    /\ sql_literal = <<>>
    /\ dest_value = <<>>
    /\ raw = <<>>
    /\ batch_size = 1
    /\ chunk_row_count = 0
    /\ inserts = <<>>
    /\ lock = FALSE
    /\ stack = <<>>

CodecNext ==
    \/ CopyTo
    \/ CopyToInserts
    \/ RestoreField

CodecSpec == CodecInit /\ [][CodecNext]_vars

\* ------------------------------------------- dump.py: rows of a COPY buffer
\* bytes.count of one byte.
RECURSIVE count(_, _)
count(s, ch) ==
    IF s = <<>> THEN 0
    ELSE (IF Head(s) = ch THEN 1 ELSE 0) + count(Tail(s), ch)

\* The rows dump_table counts in the buffer: its newlines, and one more for a
\* buffer that is not empty and does not end in a newline.
chunk_row_count_of(buf) ==
    count(buf, LF) + (IF buf # <<>> /\ buf[Len(buf)] # LF THEN 1 ELSE 0)

\* bytes.split on one byte: the pieces between the separators, empty ones
\* included; one piece, the whole, when there is no separator.
RECURSIVE split(_, _)
split(s, sep) ==
    IF \A i \in 1..Len(s) : s[i] # sep
    THEN <<s>>
    ELSE LET i == CHOOSE i \in 1..Len(s) :
                    s[i] = sep /\ \A j \in 1..(i - 1) : s[j] # sep
         IN <<SubSeq(s, 1, i - 1)>> \o split(SubSeq(s, i + 1, Len(s)), sep)

\* `lines = raw.split(b"\n")`, without the last piece when that is empty.
lines_of(buf) ==
    LET lines == split(buf, LF)
    IN IF lines[Len(lines)] = <<>> THEN SubSeq(lines, 1, Len(lines) - 1)
       ELSE lines

\* The tuple of one line: a value for each tab-separated field.
values_of(line) ==
    LET fields == split(line, TAB)
    IN [i \in 1..Len(fields) |-> _copy_to_inserts(fields[i])]

\* A batch that is written out one tuple late.
flush_over(batch, size) == Len(batch) > size

\* `if len(batch) >= batch_size`: the batch is written out and emptied.
flush(batch, size) == Len(batch) >= size

\* The loop over the lines and the last partial batch after it.
RECURSIVE batch_loop(_, _, _, _)
batch_loop(lines, batch, output_parts, size) ==
    IF lines = <<>>
    THEN (IF batch # <<>> THEN Append(output_parts, batch) ELSE output_parts)
    ELSE LET grown == Append(batch, values_of(Head(lines)))
         IN IF flush(grown, size)
            THEN batch_loop(Tail(lines), <<>>, Append(output_parts, grown), size)
            ELSE batch_loop(Tail(lines), grown, output_parts, size)

\* _copy_to_inserts on a whole buffer: nothing for an empty buffer.
insert_statements(buf, size) ==
    IF buf = <<>> THEN <<>> ELSE batch_loop(lines_of(buf), <<>>, <<>>, size)

\* The buffers: fields of "x", tabs between fields, newlines after records.
RECURSIVE BuffersUpTo(_)
BuffersUpTo(n) ==
    IF n = 0 THEN {<<>>}
    ELSE LET shorter == BuffersUpTo(n - 1)
         IN shorter \cup {Append(b, c) : b \in shorter, c \in {"x", TAB, LF}}

\* dump.py:149-151
CountRows ==
    /\ pc = "b_raw"
    /\ chunk_row_count' = chunk_row_count_of(raw)
    /\ pc' = "b_convert"
    /\ UNCHANGED <<raw, batch_size, inserts, lock, stack>>
    /\ UNCHANGED <<field_type, field_value, copy_field, sql_literal, dest_value>>
    /\ UNCHANGED <<interrupted, interrupt_count, table_rows, settings, manifest,
                   last_manifest, chunk_files, d, restore_state, r, dest,
                   commits, runs, report, dest_schema, table_columns,
                   schema_file, hooks>>

\* dump.py:264, the call of _copy_to_inserts in _build_sql_chunk
BuildInserts ==
    /\ pc = "b_convert"
    /\ inserts' = insert_statements(raw, batch_size)
    /\ pc' = "b_done"
    /\ UNCHANGED <<raw, batch_size, chunk_row_count, lock, stack>>
    /\ UNCHANGED <<field_type, field_value, copy_field, sql_literal, dest_value>>
    /\ UNCHANGED <<interrupted, interrupt_count, table_rows, settings, manifest,
                   last_manifest, chunk_files, d, restore_state, r, dest,
                   commits, runs, report, dest_schema, table_columns,
                   schema_file, hooks>>

\* One COPY buffer of an insert-mode dump, counted and converted.
BatchInit ==
    /\ pc = "b_raw"
    /\ interrupted = ImportState
    /\ interrupt_count = 0
    /\ table_rows = 1
    /\ settings = [DefaultSettings EXCEPT !.dump_mode = "insert"]
    /\ manifest = ManifestAbsent
    /\ last_manifest = ManifestAbsent
    /\ chunk_files = [f \in FileNames |-> AbsentFile]
    /\ d = IdleDump
    /\ restore_state = StateAbsent
    /\ r = IdleRestore
    /\ dest = EmptyTable
    /\ commits = EmptyTable
    /\ runs = 0
    /\ report = "none"
    /\ dest_schema = "indexed"
    /\ table_columns = "a"
    /\ schema_file = FALSE
    /\ hooks = <<>>
    /\ field_type = "text"
    /\ field_value = <<>>
    /\ copy_field = <<>>
    /\ sql_literal = <<>>
    /\ dest_value = <<>>
    /\ raw \in BuffersUpTo(MaxBytes)
    /\ batch_size \in 1..MaxBatch
    /\ chunk_row_count = 0
    /\ inserts = <<>>
    /\ lock = FALSE
    /\ stack = <<>>

BatchNext ==
    \/ CountRows
    \/ BuildInserts

BatchSpec == BatchInit /\ [][BatchNext]_vars

\* ------------------------------------------- ui.py: the interrupt functions
\* reset_interrupt and _signal_handler statement by statement.  Both run in
\* the main thread: Python runs the handler of a signal between two bytecodes
\* of whatever the main thread is executing, a handler included, and on top of
\* a blocking acquire.  Only the innermost activation moves.
Frame(fn, at) == [fn |-> fn, at |-> at]

Top == stack[Len(stack)]

Pop == SubSeq(stack, 1, Len(stack) - 1)

Goto(at) == [stack EXCEPT ![Len(stack)].at = at]

\* What the signal machine leaves alone.
signal_frame ==
    <<table_rows, settings, manifest, last_manifest, chunk_files, d,
      restore_state, r, dest, commits, dest_schema, table_columns,
      schema_file, hooks, field_type, field_value, copy_field, sql_literal,
      dest_value, batch_vars>>

\* threading.Lock.acquire, blocking: returns once the lock is free.
acquire(held) == ~held

\* cli.py:269 / cli.py:376: flow_dump or flow_restore calls reset_interrupt().
StartFlow ==
    /\ pc = "idle"
    /\ stack = <<>>
    /\ runs < MaxRuns
    /\ runs' = runs + 1
    /\ pc' = "f_reset"
    /\ stack' = <<Frame("reset", "acquire")>>
    /\ report' = "none"
    /\ UNCHANGED <<interrupted, interrupt_count, lock, signal_frame>>

\* SIGINT: the handler is called on top of what the main thread is doing.
Deliver ==
    /\ Len(stack) < MaxDepth
    /\ interrupt_count < MaxSignals
    /\ stack' = Append(stack, Frame("handler", "acquire"))
    /\ UNCHANGED <<pc, runs, report, interrupted, interrupt_count, lock,
                   signal_frame>>

\* `with _lock:` entered, in either function.
Acquire ==
    /\ stack # <<>>
    /\ Top.at = "acquire"
    /\ acquire(lock)
    /\ lock' = TRUE
    /\ stack' = Goto(IF Top.fn = "reset" THEN "flag" ELSE "inc")
    /\ UNCHANGED <<pc, runs, report, interrupted, interrupt_count, signal_frame>>

\* reset_interrupt: interrupted = False
ResetFlag ==
    /\ stack # <<>>
    /\ Top = Frame("reset", "flag")
    /\ interrupted' = reset_interrupt
    /\ stack' = Goto("count")
    /\ UNCHANGED <<pc, runs, report, interrupt_count, lock, signal_frame>>

\* reset_interrupt: _interrupt_count = 0, the lock released on the way out;
\* the flow goes on to its table loop.
ResetCount ==
    /\ stack # <<>>
    /\ Top = Frame("reset", "count")
    /\ interrupt_count' = 0
    /\ lock' = FALSE
    /\ stack' = Pop
    /\ pc' = "f_tables"
    /\ UNCHANGED <<runs, report, interrupted, signal_frame>>

\* _signal_handler: _interrupt_count += 1
HandlerCount ==
    /\ stack # <<>>
    /\ Top = Frame("handler", "inc")
    /\ interrupt_count' = interrupt_count + 1
    /\ stack' = Goto("branch")
    /\ UNCHANGED <<pc, runs, report, interrupted, lock, signal_frame>>

\* _signal_handler: `if _interrupt_count == 1: interrupted = True`, else on to
\* the force quit; console.print follows in both branches.
HandlerBranch ==
    /\ stack # <<>>
    /\ Top = Frame("handler", "branch")
    /\ IF interrupt_count = 1
       THEN /\ interrupted' = [interrupted EXCEPT !["ui"] = TRUE]
            /\ stack' = Goto("print")
       ELSE /\ interrupted' = interrupted
            /\ stack' = Goto("quit")
    /\ UNCHANGED <<pc, runs, report, interrupt_count, lock, signal_frame>>

\* _signal_handler returns after the warning was printed: the lock is
\* released, the interrupted code goes on.
HandlerReturn ==
    /\ stack # <<>>
    /\ Top = Frame("handler", "print")
    /\ lock' = FALSE
    /\ stack' = Pop
    /\ UNCHANGED <<pc, runs, report, interrupted, interrupt_count, signal_frame>>

\* _signal_handler raises KeyboardInterrupt: the lock is released, the
\* exception unwinds the main thread to the `except KeyboardInterrupt` of
\* main().
HandlerRaise ==
    /\ stack # <<>>
    /\ Top = Frame("handler", "quit")
    /\ lock' = FALSE
    /\ stack' = <<>>
    /\ pc' = "idle"
    /\ report' = "interrupted"
    /\ UNCHANGED <<runs, interrupted, interrupt_count, signal_frame>>

\* The table loop of the flow ends, back to the menu.
EndFlow ==
    /\ pc = "f_tables"
    /\ stack = <<>>
    /\ pc' = "idle"
    /\ report' = FlowReport
    /\ UNCHANGED <<runs, interrupted, interrupt_count, lock, stack, signal_frame>>

SignalInit ==
    /\ pc = "idle"
    /\ interrupted = ImportState
    /\ interrupt_count = 0
    /\ table_rows = 0
    /\ settings = DefaultSettings
    /\ manifest = ManifestAbsent
    /\ last_manifest = ManifestAbsent
    /\ chunk_files = [f \in FileNames |-> AbsentFile]
    /\ d = IdleDump
    /\ restore_state = StateAbsent
    /\ r = IdleRestore
    /\ dest = EmptyTable
    /\ commits = EmptyTable
    /\ runs = 0
    /\ report = "none"
    /\ dest_schema = "indexed"
    /\ table_columns = "a"
    /\ schema_file = FALSE
    /\ hooks = <<>>
    /\ field_type = "text"
    /\ field_value = <<>>
    /\ copy_field = <<>>
    /\ sql_literal = <<>>
    /\ dest_value = <<>>
    /\ raw = <<>>
    /\ batch_size = 1
    /\ chunk_row_count = 0
    /\ inserts = <<>>
    /\ lock = FALSE
    /\ stack = <<>>

SignalNext ==
    \/ StartFlow
    \/ Deliver
    \/ Acquire
    \/ ResetFlag
    \/ ResetCount
    \/ HandlerCount
    \/ HandlerBranch
    \/ HandlerReturn
    \/ HandlerRaise
    \/ EndFlow

SignalSpec == SignalInit /\ [][SignalNext]_vars

\* ---------------------------------------------------------------- properties
Chunks == 0..(MaxChunks - 1)

\* The chunk file the manifest document m names for index i.
ManifestChunk(m, i) == chunk_files[chunk_filename(m, i)]

RECURSIVE RowsBelow(_, _)
\* Records in the chunk files 0..n-1 that m names (a missing file holds none).
RowsBelow(m, n) ==
    IF n = 0 THEN 0 ELSE RowsBelow(m, n - 1) + ManifestChunk(m, n - 1).rows

\* C1: once an interrupt was requested in the running flow, dump_table and
\* restore_table start no further chunk, and dump_table does not set
\* finished_at while chunks remain unwritten.
C1_CleanStop ==
    [][interrupt_count >= 1 =>
         /\ ~(pc = "d_loop" /\ pc' = "d_open")
         /\ ~(pc = "r_loop" /\ pc' \in {"r_apply", "r_state"})
         /\ ~(pc = "d_after" /\ pc' = "d_wm" /\ d.chunk_idx < d.chunks_total)]_vars

\* C2: over any sequence of restore runs, however each was stopped, no chunk's
\* data is committed to the destination a second time: the destination never
\* holds two copies of a chunk.
C2_NoChunkTwice == \A i \in Chunks : dest[i] <= 1

\* C3: every manifest dump_table writes has 0 <= chunks_completed <= chunks_total.
C3_CompletedWithinTotal ==
    IsDoc(manifest) =>
        /\ 0 <= manifest.doc.chunks_completed
        /\ manifest.doc.chunks_completed <= manifest.doc.chunks_total

\* C4: each manifest write stores a chunks_completed that is >= the one of the
\* previously stored manifest.
C4_CompletedMonotonic ==
    [][(IsDoc(manifest') /\ manifest' # manifest /\ IsDoc(last_manifest)) =>
          manifest'.doc.chunks_completed >= last_manifest.doc.chunks_completed]_vars

\* C5: whenever the manifest on disk has finished_at set, the file the manifest
\* itself names exists for every chunk index below chunks_total.
C5_FinishedHasAllChunks ==
    (IsDoc(manifest) /\ manifest.doc.finished_at) =>
        \A i \in Chunks :
            i < manifest.doc.chunks_total =>
                ManifestChunk(manifest.doc, i).state # "absent"

\* C6: for a manifest with finished_at set, the records of the chunk files
\* 0..chunks_total-1 add up to total_rows (stated for the dumps whose chunk
\* files are all there and complete; the missing ones are C5's).
C6_RowSum ==
    (/\ IsDoc(manifest)
     /\ manifest.doc.finished_at
     /\ \A i \in Chunks :
           i < manifest.doc.chunks_total =>
               ManifestChunk(manifest.doc, i).state = "complete") =>
        RowsBelow(manifest.doc, manifest.doc.chunks_total) = manifest.doc.total_rows

\* C7: a manifest write follows the chunk writes it describes: every manifest
\* dump_table stores references only chunk files that are completely written.
C7_ManifestAfterChunk ==
    [][(IsDoc(manifest') /\ manifest' # manifest) =>
          \A i \in Chunks :
              i < manifest'.doc.chunks_completed =>
                  chunk_files'[chunk_filename(manifest'.doc, i)].state = "complete"]_vars

\* C8: restore_state.json never records more chunks than were committed: the
\* chunks below chunks_restored have all been committed to the destination.
C8_StateAfterCommit ==
    IsDoc(restore_state) =>
        \A i \in Chunks : i < restore_state.chunks_restored => commits[i] >= 1

\* C9: once a manifest has been stored, a reader of manifest.json finds a
\* complete document (the previous one or the new one), never an empty or
\* partial one.
C9_AtomicManifest == IsDoc(last_manifest) => manifest.file # "truncated"

\* C10: a run with resume=True that found a manifest recording chunks_completed
\* = k+1 extracts chunk k+1 first, at OFFSET (k+1)*chunk_rows, and writes to no
\* chunk file of an index <= k.
C10_ResumeSound ==
    [][(pc # "idle" /\ d.resume /\ IsDoc(last_manifest)) =>
          /\ (pc = "d_loop" /\ pc' = "d_open" /\ d.chunk_idx = d.start_chunk) =>
                /\ d.chunk_idx = manifest.doc.chunks_completed
                /\ d'.raw = copy_rows(table_rows, settings.chunk_rows,
                                      manifest.doc.chunks_completed * settings.chunk_rows)
          /\ \A f \in FileNames :
                chunk_files'[f] # chunk_files[f] =>
                    f[1] >= last_manifest.doc.chunks_completed]_vars

\* C10 witness: a resumed run has opened the file of its first chunk, k+1 > 0.
C10_Witness ==
    /\ pc = "d_write"
    /\ d.resume
    /\ d.start_chunk > 0
    /\ d.chunk_idx = d.start_chunk
    /\ IsDoc(manifest)
    /\ manifest.doc.chunks_completed = d.start_chunk

\* C11: when the last of the max_retries attempts on chunk k fails,
\* restore_table makes no further attempt, stores chunks_restored = k and
\* raises; and a run that finds chunks_restored = k starts at chunk k.
C11_RetryExhaustion ==
    [][/\ (pc = "r_apply" /\ r.attempt >= settings.max_retries) =>
             r'.attempt <= r.attempt
       /\ (pc = "r_apply" /\ pc' = "r_ws") =>
             /\ r.attempt = settings.max_retries
             /\ r'.pending = r.chunk_idx
             /\ r'.next = "raise"
       /\ (pc = "r_ws" /\ r.next = "raise" /\ IsDoc(restore_state')) =>
             /\ restore_state' = StateDoc(r.chunk_idx)
             /\ pc' = "idle"
             /\ report' = "error"
       /\ (pc = "idle" /\ IsDoc(restore_state) /\ pc' \in {"r_pre", "r_loop"}) =>
             /\ r'.start_chunk = restore_state.chunks_restored
             /\ r'.chunk_idx = restore_state.chunks_restored]_vars

\* C11 witness: a run gave up on chunk 1 after chunk 0 was committed: the error
\* went to main() and the state file holds chunks_restored = 1.
C11_Witness ==
    /\ pc = "idle"
    /\ report = "error"
    /\ restore_state = StateDoc(1)
    /\ commits[0] = 1
    /\ commits[1] = 0

\* C12: when an attempt on chunk k succeeds after an earlier attempt on it
\* failed, the destination holds chunk k's rows exactly once.
C12_RetrySuccess ==
    [][(pc = "r_apply" /\ r.attempt > 1 /\ pc' = "r_state") =>
          dest'[r.chunk_idx] = 1]_vars

\* C13: with disable_indexes_on_restore (copy-mode dump, so that only restore
\* itself drops indexes), a run that completes the restore, every chunk
\* committed, while the indexes are dropped is a run that rebuilds them.
C13_IndexesRebuilt ==
    [][(/\ pc = "r_loop"
        /\ r.dump_mode = "copy"
        /\ settings.disable_indexes_on_restore
        /\ r.chunk_idx = r.chunks_total
        /\ \A i \in Chunks : i < r.chunks_total => commits[i] >= 1
        /\ dest_schema = "bare"
        /\ pc' = "idle"
        /\ report' = "complete") => r.dropped_indexes]_vars

\* C14: a missing chunk file is fatal: a restore flow reports "complete" only
\* for a dump none of whose chunk files is missing.
C14_MissingChunkFatal ==
    (report = "complete" /\ IsDoc(manifest)) =>
        \A i \in Chunks :
            i < manifest.doc.chunks_total =>
                ManifestChunk(manifest.doc, i).state # "absent"

\* C20: every chunks_restored that restore_table stores is within
\* 0..chunks_total, is >= the value the state file held before, and equals
\* chunks_total only when every chunk has been committed.
C20_RestoredBounds ==
    [][/\ (IsDoc(restore_state) /\ restore_state'.file = "truncated") =>
             r'.pending >= restore_state.chunks_restored
       /\ (restore_state.file = "truncated" /\ IsDoc(restore_state')) =>
             /\ 0 <= restore_state'.chunks_restored
             /\ restore_state'.chunks_restored <= manifest.doc.chunks_total
             /\ restore_state'.chunks_restored = manifest.doc.chunks_total =>
                   \A i \in Chunks :
                       i < manifest.doc.chunks_total => commits'[i] >= 1]_vars

\* The least number of chunks of m.chunk_rows rows that hold m.total_rows rows.
IsCeil(m) ==
    /\ m.chunks_total * m.chunk_rows >= m.total_rows
    /\ m.chunks_total = 0 \/ (m.chunks_total - 1) * m.chunk_rows < m.total_rows

\* C15: once a manifest has been written for a table, every later manifest
\* written for it carries the same column list (columns, and with it
\* pk_columns, never change between runs).
C15_ColumnsFixed ==
    [][(IsDoc(last_manifest) /\ ~IsDoc(manifest) /\ IsDoc(manifest')) =>
          manifest'.doc.columns = last_manifest.doc.columns]_vars

\* C16: every manifest dump_table builds or writes has chunks_total =
\* ceil(total_rows / chunk_rows); for an empty table the manifest written has
\* chunks_total 0 and finished_at set, and the run writes no chunk file.
C16_ChunksTotal ==
    [][/\ pc' \in {"d_loop", "d_open", "d_write", "d_record", "d_after", "d_wm"} =>
             /\ IsCeil(d'.manifest)
             /\ d'.manifest.total_rows > 0 => d'.chunks_total = d'.manifest.chunks_total
       /\ IsDoc(manifest') => IsCeil(manifest'.doc)
       /\ (pc = "d_wm" /\ d.manifest.total_rows = 0 /\ IsDoc(manifest')) =>
             /\ manifest'.doc.chunks_total = 0
             /\ manifest'.doc.finished_at
       /\ (pc' = "d_wm" /\ d'.manifest.total_rows = 0) \/
          (pc = "d_wm" /\ d.manifest.total_rows = 0) =>
             chunk_files' = chunk_files]_vars

\* C16 witness: a finished dump of 2 rows in chunks of 1 row (total_rows =
\* 2 * chunk_rows): chunks_total is 2 and there is no third chunk file.
C16_Witness ==
    /\ IsDoc(manifest)
    /\ manifest.doc.total_rows = 2
    /\ manifest.doc.chunk_rows = 1
    /\ manifest.doc.chunks_total = 2
    /\ manifest.doc.finished_at
    /\ ManifestChunk(manifest.doc, 1).state = "complete"
    /\ ManifestChunk(manifest.doc, 2).state = "absent"

\* stmt occurs in sql and a later statement of sql is then.
HasThen(sql, stmt, then) ==
    \E i \in 1..Len(sql), j \in 1..Len(sql) :
        i < j /\ sql[i] = stmt /\ sql[j] = then

\* C17: an insert-mode chunk file that contains DROP TABLE IF EXISTS contains
\* the schema DDL after the DROP.
C17_DropHasSchema ==
    \A f \in FileNames :
        Has(chunk_files[f].sql, "DROP TABLE") =>
            HasThen(chunk_files[f].sql, "DROP TABLE", "DDL")

\* The literal of a value: NULL, or the value in single quotes with each
\* single quote doubled.
Literal(v) ==
    IF v = Null THEN Null
    ELSE <<QUOTE>> \o replace(v, <<QUOTE>>, <<QUOTE, QUOTE>>) \o <<QUOTE>>

\* C18: a field restored from a dump, in copy mode and in insert mode alike,
\* is the field of the source row.
C18_RoundTrip == pc = "c_done" => dest_value = field_value

\* C19: for every field value, _copy_to_inserts makes of its COPY encoding
\* NULL for SQL NULL and else the value in single quotes, single quotes
\* doubled; the string backslash-N does not become NULL.
C19_EscapingLaw ==
    (pc \in {"c_file", "c_done"} /\ settings.dump_mode = "insert") =>
        sql_literal = Literal(field_value)

\* C21: when the extraction of chunk i or the write of its file fails, the run
\* ends there (no retry), the error reaches the caller, manifest.json is left
\* as it was, with chunks_completed <= i and finished_at unset, and the dump
\* connection is closed.
C21_DumpFailure ==
    [][(pc \in {"d_loop", "d_write"} /\ report' = "error") =>
          /\ pc' = "idle"
          /\ d.conn /\ ~d'.conn
          /\ manifest' = manifest
          /\ IsDoc(manifest') =>
                /\ manifest'.doc.chunks_completed <= d.chunk_idx
                /\ ~manifest'.doc.finished_at]_vars

\* C21 witness: a resumed run failed on chunk 1; the manifest still says one
\* chunk completed, not finished.
C21_Witness ==
    /\ pc = "idle"
    /\ report = "error"
    /\ IsDoc(manifest)
    /\ manifest.doc.chunks_completed = 1
    /\ manifest.doc.chunks_total = 2
    /\ ~manifest.doc.finished_at
    /\ ManifestChunk(manifest.doc, 1).state \in {"absent", "partial"}

\* C22: chunk files are write-once: dump_table opens a chunk file path for
\* writing only when no earlier open has created it.
C22_WriteOnce ==
    [][(pc = "d_open" /\ pc' = "d_write") =>
          chunk_files[chunk_filename(d.manifest, d.chunk_idx)].state = "absent"]_vars

\* C23: in the insert-mode chunk of the table t(id int, s text) a value of the
\* integer column is emitted unquoted and a one-letter value of the text
\* column in single quotes: (1, 'a').
C23_InsertScenario ==
    (pc \in {"c_file", "c_done"} /\ settings.dump_mode = "insert") =>
        /\ (field_type = "int" /\ field_value # Null) =>
              sql_literal = field_value
        /\ (field_type = "text" /\ field_value \in {<<"n">>, <<"b">>}) =>
              sql_literal = <<QUOTE>> \o field_value \o <<QUOTE>>

\* The hooks the switches ask for, in the order DROP TABLE, DDL, TRUNCATE.
HooksAsked(s, has_schema, schema_exists) ==
    Stmt(s.drop_on_restore, "DROP TABLE")
    \o Stmt(s.recreate_schema /\ has_schema /\ schema_exists, "DDL")
    \o Stmt(s.truncate_before_restore /\ ~s.drop_on_restore, "TRUNCATE")

\* s is t, or t cut short behind a statement that raised.
IsPrefix(s, t) == Len(s) <= Len(t) /\ s = SubSeq(t, 1, Len(s))

\* The statements of a hook log, without the rollback of a failed TRUNCATE.
Sent(log) == SelectSeq(log, LAMBDA x : x # "ROLLBACK")

\* C24: hooks are sent only by a run with start_chunk = 0, before its first
\* chunk; a run that goes on to its chunks has sent exactly DROP TABLE (iff
\* drop_on_restore), the DDL (iff recreate_schema, has_schema and schema.sql
\* is there), TRUNCATE (iff truncate_before_restore and not drop_on_restore), in
\* this order, and a run that a hook ends has sent a prefix of these.
C24_HookOrder ==
    [][/\ hooks' # hooks =>
             \/ pc = "idle" /\ hooks' = <<>>
             \/ /\ pc = "r_pre"
                /\ r.start_chunk = 0 /\ r.chunk_idx = 0 /\ r.attempt = 0
                /\ restore_start_of(restore_state) = 0
       /\ (pc = "idle" /\ pc' # "idle" /\ restore_start_of(restore_state) > 0) =>
             pc' = "r_loop"
       /\ (pc = "r_pre" /\ pc' \in {"r_drop", "r_loop"}) =>
             Sent(hooks') = HooksAsked(settings, r.has_schema, schema_file)
       /\ (pc = "r_pre" /\ report' = "error") =>
             IsPrefix(hooks', HooksAsked(settings, r.has_schema, schema_file))]_vars

\* C24 witness: a first run has dropped the table and recreated it from
\* schema.sql and is at its first chunk.
C24_Witness ==
    /\ pc = "r_loop"
    /\ r.chunk_idx = 0
    /\ hooks = <<"DROP TABLE", "DDL">>
    /\ dest_schema = "indexed"

\* C25: a failing TRUNCATE hook does not end the run: restore_table goes on to
\* the chunk loop with no error reported, and what an earlier hook committed
\* (the schema created from schema.sql) stays.
C25_TruncateNonFatal ==
    [][(pc = "r_pre" /\ Has(hooks', "ROLLBACK")) =>
          /\ pc' \in {"r_drop", "r_loop"}
          /\ report' = "none"
          /\ r' = r
          /\ dest' = dest
          /\ dest_schema' = (IF Has(hooks', "DDL") THEN "indexed" ELSE dest_schema)]_vars

\* C25 witness: the DDL hook created the table, TRUNCATE failed and was rolled
\* back, the run is at its first chunk and the table is there.
C25_Witness ==
    /\ pc = "r_loop"
    /\ hooks = <<"DDL", "TRUNCATE", "ROLLBACK">>
    /\ dest_schema = "indexed"
    /\ report = "none"

\* C28: a chunk gets at most max_retries attempts in a run; a failed attempt a
\* < max_retries is followed by a sleep of retry_backoff ** a and attempt a + 1;
\* the last failed attempt and a successful attempt are followed by no sleep.
C28_RetrySchedule ==
    [][/\ pc' = "r_apply" => r'.attempt <= settings'.max_retries
       /\ (pc = "r_apply" /\ pc' = "r_apply" /\ r' # r) =>
             /\ r.attempt < settings.max_retries
             /\ r'.attempt = r.attempt + 1
             /\ r'.sleeps = Append(r.sleeps, settings.retry_backoff ^ r.attempt)
       /\ (pc = "r_apply" /\ pc' \in {"r_state", "r_ws"}) =>
             /\ r'.sleeps = r.sleeps
             /\ pc' = "r_ws" => r.attempt = settings.max_retries]_vars

\* C28 witness: the third attempt on a chunk, after sleeps of retry_backoff and
\* retry_backoff squared.
C28_Witness ==
    /\ pc = "r_apply"
    /\ r.attempt = 3
    /\ r.sleeps = <<settings.retry_backoff, settings.retry_backoff ^ 2>>

\* C29: the chunk file name restore_table resolves for an index is the name
\* DumpManifest.chunk_filename gives for the manifest and that index: same
\* index, extension by the manifest's dump_mode and compressed, whatever the
\* compress switch of the restore's settings.
C29_NamingAgrees ==
    (pc \in {"r_pre", "r_drop", "r_loop", "r_apply", "r_state", "r_ws"}) =>
        /\ r.compressed = manifest.doc.compressed
        /\ r.dump_mode = manifest.doc.dump_mode
        /\ \A i \in Chunks :
              restore_chunk_file(r.dump_mode, r.compressed, i) =
                  chunk_filename(manifest.doc, i)

\* C29 witness: an attempt on chunk 1 of an uncompressed insert-mode dump, under
\* settings whose compress switch is on.
C29_Witness ==
    /\ pc = "r_apply"
    /\ r.chunk_idx = 1
    /\ settings.compress
    /\ ~manifest.doc.compressed
    /\ manifest.doc.dump_mode = "insert"
    /\ RestoreChunkFile = <<1, ".sql">>
    /\ chunk_files[RestoreChunkFile].state = "complete"

\* The positions of a dump flow and of a restore flow.
DumpPositions == {"d_loop", "d_open", "d_write", "d_record", "d_after", "d_wm"}
RestorePositions == {"r_pre", "r_drop", "r_loop", "r_apply", "r_state", "r_ws"}

\* C30: a flow started on a directory whose manifest has finished_at does not
\* enter dump_table's work: no connection, manifest.json, schema.sql and the
\* chunk files untouched; a flow started on a dump with total_rows = 0 or with
\* chunks_restored >= chunks_total does not enter restore_table's work: no
\* hook, no attempt, restore_state.json and the destination untouched.
C30_RerunNoOp ==
    [][/\ (pc = "idle" /\ IsDoc(manifest) /\ manifest.doc.finished_at) =>
             /\ pc' \notin DumpPositions
             /\ ~d'.conn
             /\ manifest' = manifest
             /\ schema_file' = schema_file
             /\ chunk_files' = chunk_files
       /\ (/\ pc = "idle"
           /\ IsDoc(manifest)
           /\ \/ manifest.doc.total_rows = 0
              \/ /\ IsDoc(restore_state)
                 /\ restore_state.chunks_restored >= manifest.doc.chunks_total) =>
             /\ pc' \notin RestorePositions
             /\ hooks' \in {hooks, <<>>}
             /\ restore_state' = restore_state
             /\ dest' = dest
             /\ dest_schema' = dest_schema
             /\ commits' = commits]_vars

\* C30 witness: a flow was run on a finished two-chunk dump whose restore state
\* says both chunks restored: it came back at once, reporting completion, the
\* state file and the (empty) destination as they were.
C30_Witness ==
    /\ pc = "idle"
    /\ runs = 1
    /\ report = "complete"
    /\ IsDoc(manifest) /\ manifest.doc.finished_at
    /\ manifest.doc.chunks_total = 2
    /\ restore_state = StateDoc(2)
    /\ dest = EmptyTable
    /\ commits = EmptyTable

\* The statements of a chunk file in the order _build_sql_chunk lays them out.
Layout ==
    <<"DROP TABLE", "DDL", "TRUNCATE", "DROP INDEX", "BEGIN", "INSERT",
      "COMMIT", "CREATE INDEX">>

Preamble == {"DROP TABLE", "DDL", "TRUNCATE", "DROP INDEX"}

\* C26: the insert-mode file a write step leaves holds the statements of
\* Layout it has in that order, each once; preamble statements only in chunk
\* 0, with DROP TABLE iff drop_on_restore, TRUNCATE iff truncate_before_restore
\* and not drop_on_restore, DROP INDEX iff indexes are disabled and the table
\* has non-PK indexes; BEGIN and COMMIT iff use_transactions; CREATE INDEX only
\* in chunk chunks_total - 1, and there iff DROP INDEX is in chunk 0's
\* conditions; a single chunk carries both; chunk 0 carries the preamble also
\* when an earlier run died writing it.
C26_ChunkLayout ==
    [][(pc = "d_write" /\ pc' = "d_record" /\ settings.dump_mode = "insert") =>
         LET sql == chunk_files'[chunk_filename(d.manifest, d.chunk_idx)].sql
             first == d.chunk_idx = 0
             last == d.chunk_idx = d.manifest.chunks_total - 1
             indexes == settings.disable_indexes_on_restore /\ d.index_defs
             In(stmt) == Has(sql, stmt)
         IN /\ sql = SelectSeq(Layout, In)
            /\ (\E stmt \in Preamble : Has(sql, stmt)) => first
            /\ first =>
                 /\ Has(sql, "DROP TABLE") <=> settings.drop_on_restore
                 /\ Has(sql, "TRUNCATE") <=>
                      (settings.truncate_before_restore
                         /\ ~settings.drop_on_restore)
                 /\ Has(sql, "DROP INDEX") <=> indexes
            /\ Has(sql, "BEGIN") <=> settings.use_transactions
            /\ Has(sql, "COMMIT") <=> settings.use_transactions
            /\ Has(sql, "INSERT")
            /\ Has(sql, "CREATE INDEX") <=> (last /\ indexes)]_vars

\* C26 witness: the only chunk of a one-chunk dump is written, with preamble
\* and epilogue around the data.
C26_Witness ==
    /\ pc = "d_record"
    /\ d.chunk_idx = 0
    /\ d.manifest.chunks_total = 1
    /\ chunk_files[<<0, ".sql.gz">>].state = "complete"
    /\ chunk_files[<<0, ".sql.gz">>].sql =
         <<"DROP TABLE", "DDL", "DROP INDEX", "BEGIN", "INSERT", "COMMIT",
           "CREATE INDEX">>

\* The tuples of all statements, in the order they are emitted.
RECURSIVE Flatten(_)
Flatten(stmts) ==
    IF stmts = <<>> THEN <<>> ELSE Head(stmts) \o Flatten(Tail(stmts))

\* The position of the i-th newline of a buffer.
NthLF(buf, i) ==
    CHOOSE p \in 1..Len(buf) :
        buf[p] = LF /\ Cardinality({q \in 1..p : buf[q] = LF}) = i

\* The i-th record of a buffer: what stands between newline i - 1 and newline
\* i, or the end of the buffer after the last newline.
Record(buf, i) ==
    SubSeq(buf,
           IF i = 1 THEN 1 ELSE NthLF(buf, i - 1) + 1,
           IF i <= count(buf, LF) THEN NthLF(buf, i) - 1 ELSE Len(buf))

\* C27: of a buffer the row count finds n rows in, _copy_to_inserts makes
\* ceil(n / insert_batch_size) statements, none with more than
\* insert_batch_size tuples and all but the last with exactly that many; the
\* tuples are n in all, the i-th made of the i-th record, empty lines included,
\* with one value for each of its tab-separated fields.
C27_Batching ==
    pc = "b_done" =>
        LET n == chunk_row_count
            tuples == Flatten(inserts)
        IN /\ Len(inserts) * batch_size >= n
           /\ inserts = <<>> \/ (Len(inserts) - 1) * batch_size < n
           /\ \A k \in 1..Len(inserts) :
                 /\ Len(inserts[k]) <= batch_size
                 /\ k < Len(inserts) => Len(inserts[k]) = batch_size
                 /\ inserts[k] # <<>>
           /\ Len(tuples) = n
           /\ \A i \in 1..Len(tuples) :
                 /\ Len(tuples[i]) = count(Record(raw, i), TAB) + 1
                 /\ \A j \in 1..Len(tuples[i]) :
                       tuples[i][j] =
                         _copy_to_inserts(split(Record(raw, i), TAB)[j])

\* C27 witness: three records, the first with an empty second field, the
\* second an empty line, the third unterminated, in batches of two: a statement
\* of two tuples and one of one.
C27_Witness ==
    /\ pc = "b_done"
    /\ raw = <<"x", TAB, LF, LF, "x">>
    /\ batch_size = 2
    /\ chunk_row_count = 3
    /\ Len(inserts) = 2
    /\ Len(inserts[1]) = 2 /\ Len(inserts[1][1]) = 2 /\ Len(inserts[1][2]) = 1
    /\ Len(inserts[2]) = 1

\* The innermost activation, which is at `at` in `fn`, takes its step (and no
\* new handler is put on top of it).
Moves(fn, at) ==
    /\ stack # <<>>
    /\ Top = Frame(fn, at)
    /\ stack' # stack
    /\ Len(stack') <= Len(stack)

C33_NeverBlocked == ~(stack # <<>> /\ Top.at = "acquire" /\ lock)

\* C32: within a run the chunk index of dump_table and of restore_table moves
\* by one at a time; dump_table starts the extraction of a chunk past
\* start_chunk only when the chunk before it is written to its file and
\* counted in manifest.json; restore_table moves on only past a chunk that an
\* attempt of this run committed and that is counted in restore_state.json.
C32_IndexOrder ==
    [][/\ (/\ pc \in DumpPositions /\ pc' \in DumpPositions
           /\ d'.chunk_idx # d.chunk_idx) =>
             d'.chunk_idx = d.chunk_idx + 1
       /\ (pc = "d_loop" /\ pc' = "d_open" /\ d.chunk_idx > d.start_chunk) =>
             /\ chunk_files[chunk_filename(d.manifest, d.chunk_idx - 1)].state
                  = "complete"
             /\ IsDoc(manifest)
             /\ manifest.doc.chunks_completed = d.chunk_idx
       /\ (/\ pc \in RestorePositions /\ pc' \in RestorePositions
           /\ r'.chunk_idx # r.chunk_idx) =>
             /\ r'.chunk_idx = r.chunk_idx + 1
             /\ r.attempt >= 1
             /\ commits'[r.chunk_idx] >= 1
             /\ restore_state' = StateDoc(r.chunk_idx + 1)]_vars

\* C35: restore_table opens the state file to record chunk i as restored only
\* after an attempt of this run on chunk i committed.
C35_RecordedIsApplied ==
    [][(pc = "r_state" /\ pc' = "r_ws") =>
          (r.attempt >= 1 /\ commits[r.chunk_idx] >= 1)]_vars

\* C34: an apply attempt that fails (and is retried, or was the last) leaves
\* the rows of the destination and what is committed there as they were.
C34_FailedAttemptNoEffect ==
    [][(/\ pc = "r_apply"
        /\ \/ pc' = "r_apply" /\ r'.attempt = r.attempt + 1
           \/ pc' = "r_ws" /\ r'.next = "raise") =>
          (dest' = dest /\ commits' = commits)]_vars

\* C36: the chunk files a manifest counts were written under the chunk_rows,
\* dump_mode and compressed it records: a manifest that counts chunks and is
\* stored over one that counts chunks (by the same run or by a run resuming
\* it) records the same three values.
C36_ManifestDescribesChunks ==
    [][(/\ IsDoc(manifest') /\ manifest' # manifest
        /\ IsDoc(last_manifest)
        /\ last_manifest.doc.chunks_completed > 0
        /\ manifest'.doc.chunks_completed > 0) =>
          /\ manifest'.doc.chunk_rows = last_manifest.doc.chunk_rows
          /\ manifest'.doc.dump_mode = last_manifest.doc.dump_mode
          /\ manifest'.doc.compressed = last_manifest.doc.compressed]_vars

\* C39: _drop_non_pk_indexes hands restore_table definitions to rebuild
\* exactly when its DROP INDEX statements were committed: the list is empty
\* when the drops were rolled back and the indexes are still there.
C39_DroppedIsCommitted ==
    [][(pc = "r_drop" /\ pc' = "r_loop") =>
          (r'.dropped_indexes <=>
              (dest_schema = "indexed" /\ dest_schema' = "bare"))]_vars

C38_RunsEnd ==
    [][/\ (pc = "d_loop" /\ pc' = "d_open") =>
             (d.start_chunk <= d.chunk_idx /\ d.chunk_idx < d.chunks_total)
       /\ (pc' = "r_apply" /\ (pc # "r_apply" \/ r'.attempt # r.attempt)) =>
             /\ r.start_chunk <= r'.chunk_idx /\ r'.chunk_idx < r.chunks_total
             /\ 1 <= r'.attempt /\ r'.attempt <= settings.max_retries
       /\ (/\ pc \in DumpPositions /\ pc' = "idle"
           /\ report' = "complete" /\ interrupt_count' = 0) =>
             (IsDoc(manifest') /\ manifest'.doc.finished_at)
       /\ (/\ pc \in RestorePositions /\ pc' = "idle"
           /\ report' = "complete" /\ interrupt_count' = 0) =>
             /\ IsDoc(restore_state')
             /\ restore_state'.chunks_restored = r.chunks_total]_vars

====
